---- MODULE Spec2Model ----
(***************************************************************************)
(* Clause analysis and rule-based risk scoring of the contract assistant:  *)
(* ClauseAnalyzer (clause_analyzer.py), NLPProcessor.detect_ambiguities     *)
(* (nlp_processor.py) and RiskAssessor (risk_assessor.py), driven as in    *)
(* analyze_contract (app.py, steps 4 to 6).                                *)
(*                                                                         *)
(* Texts are TLA+ strings handled character by character (Len, SubSeq,     *)
(* \o).  Python floats are IEEE-754 doubles; they are modelled exactly, as *)
(* fixed-point numbers (see "Double precision arithmetic" below).          *)
(***************************************************************************)
EXTENDS Integers, Sequences, FiniteSets, TLC

VARIABLES
    analyzed_clauses,   \* clause_analysis: list built by analyze_clauses
    llm_risks,          \* the LLM risk list handed to assess_contract_risk
    llm_given,          \* FALSE: llm_risks is None (argument absent)
    pc,                 \* position in analyze_contract: "clauses", "llm", "done"
    risk_assessment,    \* result of assess_contract_risk (<<>> before)
    unfavorable_clauses,\* result of identify_unfavorable_clauses
    mitigation_strategies, \* result of generate_risk_mitigation_strategies
    doc_result,         \* what process_uploaded_file returned
    language_info,      \* what detect_language returned
    entities,           \* what extract_all_entities returned
    executed,           \* the collaborator calls analyze_contract made, in order
    api_raised,         \* the LLM calls whose API call raised
    classification,     \* analyze_contract's classification
    llm_summary,        \* analyze_contract's summary
    compliance,         \* analyze_contract's compliance
    negotiation_points, \* analyze_contract's negotiation_points
    messages,           \* what st.error / st.warning / st.success showed
    results,            \* what analyze_contract returned (NotReturned before)
    environment,        \* the environment variables config.py reads
    app,                \* the run of the script app.py: position, exception
    document_pieces,    \* the document as written so far, piece by piece
    extracted,          \* what the calls of extract_clauses returned
    extracted_from,     \* the texts these calls were made on
    audit_files,        \* data/audit_logs: file name -> the JSON array it holds
    now,                \* datetime.now(), in ticks
    streamlit,          \* st.session_state and the file of the uploader widget
    audit_calls,        \* how many calls of create_audit_log have returned
    audit_sessions,     \* the calls of create_audit_log under way, one per session
    doc_sents,          \* the sentences of the clause handed to extract_obligations
    obligations_found,  \* what the calls of extract_obligations returned
    classified_text,    \* the text handed to _classify_clause_type
    labels,             \* what the successive calls on classified_text returned
    detected            \* what the calls of _detect_clause_risks on it returned

\* the locals of analyze_contract
pipeline_vars == <<analyzed_clauses, llm_risks, llm_given, pc, risk_assessment,
                   unfavorable_clauses, mitigation_strategies>>
\* the other locals of analyze_contract and what it shows and returns
analysis_vars == <<doc_result, language_info, entities, executed, api_raised,
                   classification, llm_summary, compliance, negotiation_points,
                   messages, results>>
\* a classifier called on its own
classifier_vars == <<classified_text, labels, detected>>

\* the process that runs app.py
app_vars == <<environment, app, streamlit>>

\* the clause segmenter on its own
segmenter_vars == <<document_pieces, extracted, extracted_from>>

\* the audit log
audit_vars == <<audit_files, now, audit_calls, audit_sessions>>

\* the extraction of obligations on its own
obligation_vars == <<doc_sents, obligations_found>>

vars == <<pipeline_vars, classifier_vars, analysis_vars, app_vars, segmenter_vars, audit_vars,
         obligation_vars>>

\* Python's None, a str, and the value of a local that is not bound yet
None == [kind |-> "None"]
Str(s) == [kind |-> "str", value |-> s]
NotReturned == [kind |-> "not returned"]

\* what the actions of analyze_contract leave alone
outside_pipeline ==
    <<classifier_vars, analysis_vars, app_vars, segmenter_vars, audit_vars, obligation_vars>>

-----------------------------------------------------------------------------
(***************************************************************************)
(* Double precision arithmetic.                                            *)
(*                                                                         *)
(* A double d is held as the integer X = d * 2^60, written as five limbs   *)
(* of 15 bits, least significant first (X = l1 + l2*2^15 + ... ).  Every   *)
(* double between 2^-8 and 2^15 is such an integer, because its unit in    *)
(* the last place is at least 2^-60; the scores of this program (weights   *)
(* 0.8 .. 1.8, sums of a few of them, an average over a few clauses, that  *)
(* average times 20) lie in this range.  Each operation computes the exact *)
(* result and rounds it to 53 significant bits, ties to even, which is     *)
(* what the hardware does.                                                 *)
(***************************************************************************)
LimbBase == 2^15

\* number of bits of x, 0 <= x < 2^15
BitLen15(x) == CHOOSE k \in 0..15 : x < 2^k /\ (k = 0 \/ x >= 2^(k-1))

\* carry propagation: limbs that may exceed 15 bits -> limbs of 15 bits
Normalize(X) ==
    LET t1 == X[1]
        t2 == X[2] + (t1 \div LimbBase)
        t3 == X[3] + (t2 \div LimbBase)
        t4 == X[4] + (t3 \div LimbBase)
        t5 == X[5] + (t4 \div LimbBase)
    IN  <<t1 % LimbBase, t2 % LimbBase, t3 % LimbBase, t4 % LimbBase, t5>>

\* number of significant bits of X
BitLen(X) ==
    IF X[5] # 0 THEN 60 + (CHOOSE k \in 1..31 : X[5] < 2^k /\ X[5] >= 2^(k-1))
    ELSE IF X[4] # 0 THEN 45 + BitLen15(X[4])
    ELSE IF X[3] # 0 THEN 30 + BitLen15(X[3])
    ELSE IF X[2] # 0 THEN 15 + BitLen15(X[2])
    ELSE BitLen15(X[1])

\* round the exact value X (+ a fraction of a unit when sticky) to a double:
\* 53 significant bits, round to nearest, ties to even
Round53(X, sticky) ==
    LET s == BitLen(X) - 53
    IN  IF s <= 0 THEN X
        ELSE
          LET low  == IF s <= 15 THEN X[1] % 2^s
                      ELSE X[1] + LimbBase * (X[2] % 2^(s-15))
              half == 2^(s-1)
              odd  == IF s < 15 THEN (X[1] \div 2^s) % 2 = 1
                      ELSE (X[2] \div 2^(s-15)) % 2 = 1
              up   == low > half \/ (low = half /\ (sticky \/ odd))
              down == IF s <= 15 THEN <<X[1] - low, X[2], X[3], X[4], X[5]>>
                      ELSE <<0, X[2] - (X[2] % 2^(s-15)), X[3], X[4], X[5]>>
          IN  IF ~up THEN down
              ELSE IF s < 15
                   THEN Normalize(<<down[1] + 2^s, down[2], down[3], down[4], down[5]>>)
                   ELSE Normalize(<<down[1], down[2] + 2^(s-15), down[3], down[4], down[5]>>)

\* the double of the integer n (exact)
FromInt(n) == <<0, 0, 0, 0, n>>

FZero == FromInt(0)

\* x + y
FAdd(X, Y) ==
    Round53(Normalize(<<X[1]+Y[1], X[2]+Y[2], X[3]+Y[3], X[4]+Y[4], X[5]+Y[5]>>), FALSE)

\* k * x for an integer 0 <= k < 2^15
FMulInt(k, X) ==
    Round53(Normalize(<<X[1]*k, X[2]*k, X[3]*k, X[4]*k, X[5]*k>>), FALSE)

\* x / n for an integer 0 < n < 2^15
FDivInt(X, n) ==
    LET q5 == X[5] \div n
        r5 == X[5] % n
        q4 == (r5 * LimbBase + X[4]) \div n
        r4 == (r5 * LimbBase + X[4]) % n
        q3 == (r4 * LimbBase + X[3]) \div n
        r3 == (r4 * LimbBase + X[3]) % n
        q2 == (r3 * LimbBase + X[2]) \div n
        r2 == (r3 * LimbBase + X[2]) % n
        q1 == (r2 * LimbBase + X[1]) \div n
        r1 == (r2 * LimbBase + X[1]) % n
    IN  Round53(<<q1, q2, q3, q4, q5>>, r1 # 0)

\* the double a literal such as 1.2 denotes: the double nearest to tenths/10
FTenths(tenths) == FDivInt(FromInt(tenths), 10)

\* x < c and x >= c for an integer c
FLess(X, c) == X[5] < c
FGeq(X, c) == X[5] >= c

\* round(x, 2), as a number of hundredths: the hundredth nearest to the exact
\* value of the double, an exact tie going to the even one (0 <= x <= 100)
Round2(X) ==
    LET Y    == Normalize(<<X[1]*100, X[2]*100, X[3]*100, X[4]*100, X[5]*100>>)
        half == LimbBase \div 2
        rest == Y[1] # 0 \/ Y[2] # 0 \/ Y[3] # 0
        up   == Y[4] > half \/ (Y[4] = half /\ (rest \/ Y[5] % 2 = 1))
    IN  IF up THEN Y[5] + 1 ELSE Y[5]

-----------------------------------------------------------------------------
(***************************************************************************)
(* Strings and the regular-expression operators the patterns use.  A      *)
(* position i stands before the i-th character (Len(s)+1: the end).  A    *)
(* pattern is evaluated as the set of positions at which a match of its   *)
(* prefix can end, so every backtracking choice of re.search is covered.  *)
(***************************************************************************)
UpperToLower ==
    [c \in {"A","B","C","D","E","F","G","H","I","J","K","L","M","N","O","P","Q",
            "R","S","T","U","V","W","X","Y","Z"} |->
       CASE c = "A" -> "a" [] c = "B" -> "b" [] c = "C" -> "c" [] c = "D" -> "d"
         [] c = "E" -> "e" [] c = "F" -> "f" [] c = "G" -> "g" [] c = "H" -> "h"
         [] c = "I" -> "i" [] c = "J" -> "j" [] c = "K" -> "k" [] c = "L" -> "l"
         [] c = "M" -> "m" [] c = "N" -> "n" [] c = "O" -> "o" [] c = "P" -> "p"
         [] c = "Q" -> "q" [] c = "R" -> "r" [] c = "S" -> "s" [] c = "T" -> "t"
         [] c = "U" -> "u" [] c = "V" -> "v" [] c = "W" -> "w" [] c = "X" -> "x"
         [] c = "Y" -> "y" [] c = "Z" -> "z"]

\* str.lower(), character by character (halving keeps the recursion shallow)
RECURSIVE lower(_)
lower(s) ==
    IF s = "" THEN ""
    ELSE IF Len(s) = 1
         THEN (IF s \in DOMAIN UpperToLower THEN UpperToLower[s] ELSE s)
         ELSE lower(SubSeq(s, 1, Len(s) \div 2)) \o lower(SubSeq(s, Len(s) \div 2 + 1, Len(s)))

\* p in s
Contains(s, p) == \E i \in 1..(Len(s) - Len(p) + 1) : SubSeq(s, i, i + Len(p) - 1) = p

\* \w (of a lower-cased text) and \s
WordChars ==
    {"a","b","c","d","e","f","g","h","i","j","k","l","m","n","o","p","q","r","s",
     "t","u","v","w","x","y","z","0","1","2","3","4","5","6","7","8","9","_"}
SpaceChars == {" ", "\t", "\n", "\r", "\f"}

IsWordAt(s, i) == i >= 1 /\ i <= Len(s) /\ SubSeq(s, i, i) \in WordChars
IsSpaceAt(s, i) == i >= 1 /\ i <= Len(s) /\ SubSeq(s, i, i) \in SpaceChars

\* every position of s: where re.search may start
Anywhere(s) == 1..(Len(s) + 1)
\* \b
B(s, P) == {i \in P : IsWordAt(s, i - 1) # IsWordAt(s, i)}
\* (?:a1|a2|...) for literal alternatives
Lit(s, P, alts) ==
    UNION {{i + Len(a) : a \in {x \in alts : /\ i + Len(x) - 1 <= Len(s)
                                              /\ SubSeq(s, i, i + Len(x) - 1) = x}}
           : i \in P}
\* \s+
Ws1(s, P) ==
    {j \in 2..(Len(s) + 1) : \E i \in P : i < j /\ \A k \in i..(j - 1) : IsSpaceAt(s, k)}
\* \s*
Ws0(s, P) == P \cup Ws1(s, P)

-----------------------------------------------------------------------------
(***************************************************************************)
(* ClauseAnalyzer: classification of a clause and detection of its risks.  *)
(***************************************************************************)
\* self.clause_keywords, in declaration order
clause_keywords == <<
    [type |-> "Payment Terms",
     keywords |-> {"payment", "fee", "compensation", "remuneration", "salary",
                   "invoice", "due", "price", "cost", "charge"}],
    [type |-> "Termination",
     keywords |-> {"terminate", "termination", "cancel", "cancellation", "end",
                   "expire", "cessation", "dissolve", "dissolution"}],
    [type |-> "Indemnity",
     keywords |-> {"indemnify", "indemnification", "hold harmless", "defend",
                   "protect", "compensate for loss"}],
    [type |-> "Confidentiality",
     keywords |-> {"confidential", "secret", "proprietary", "non-disclosure",
                   "nda", "confidentiality"}],
    [type |-> "Intellectual Property",
     keywords |-> {"intellectual property", "copyright", "patent", "trademark",
                   "ip rights", "ownership", "proprietary rights"}],
    [type |-> "Liability",
     keywords |-> {"liability", "liable", "responsible", "responsibility",
                   "damages", "accountable"}],
    [type |-> "Dispute Resolution",
     keywords |-> {"dispute", "arbitration", "mediation", "litigation",
                   "court", "jurisdiction", "governing law"}],
    [type |-> "Force Majeure",
     keywords |-> {"force majeure", "act of god", "unforeseeable",
                   "beyond control", "natural disaster"}],
    [type |-> "Warranties",
     keywords |-> {"warrant", "warranty", "guarantee", "represent",
                   "representation", "assure", "certification"}],
    [type |-> "Non-compete",
     keywords |-> {"non-compete", "non-competition", "restrictive covenant",
                   "compete", "competitive"}],
    [type |-> "Auto-Renewal",
     keywords |-> {"auto-renew", "automatic renewal", "automatically renew",
                   "extend", "extension"}],
    [type |-> "Lock-in Period",
     keywords |-> {"lock-in", "lock in period", "minimum term",
                   "committed period"}] >>

\* score of one clause type: how many of its keywords occur in the clause
type_score(clause_lower, k) ==
    Cardinality({kw \in clause_keywords[k].keywords : Contains(clause_lower, kw)})

\* _classify_clause_type keeping, among the largest scores, the type declared last
_classify_clause_type_last_declared(clause_text) ==
    LET clause_lower == lower(clause_text)
        score == [k \in 1..Len(clause_keywords) |-> type_score(clause_lower, k)]
        scored == {k \in 1..Len(clause_keywords) : score[k] > 0}
    IN  IF scored # {}
        THEN LET best == CHOOSE k \in scored :
                            /\ \A j \in scored : score[j] <= score[k]
                            /\ \A j \in scored : j > k => score[j] < score[k]
             IN  clause_keywords[best].type
        ELSE "General Provisions"

\* _classify_clause_type remembering earlier calls: from the second call on a
\* text, the largest score is looked for from the last declared type backwards
_classify_clause_type_remembering(clause_text) ==
    LET clause_lower == lower(clause_text)
        score == [k \in 1..Len(clause_keywords) |-> type_score(clause_lower, k)]
        scored == {k \in 1..Len(clause_keywords) : score[k] > 0}
    IN  IF scored # {}
        THEN LET best == CHOOSE k \in scored :
                            /\ \A j \in scored : score[j] <= score[k]
                            /\ \A j \in scored :
                                 (IF labels = <<>> THEN j < k ELSE j > k) => score[j] < score[k]
             IN  clause_keywords[best].type
        ELSE "General Provisions"

\* _classify_clause_type: max() over the types with a positive score keeps the
\* first of the largest ones, in declaration order
_classify_clause_type(clause_text) ==
    LET clause_lower == lower(clause_text)
        score == [k \in 1..Len(clause_keywords) |-> type_score(clause_lower, k)]
        scored == {k \in 1..Len(clause_keywords) : score[k] > 0}
    IN  IF scored # {}
        THEN LET best == CHOOSE k \in scored :
                            /\ \A j \in scored : score[j] <= score[k]
                            /\ \A j \in scored : j < k => score[j] < score[k]
             IN  clause_keywords[best].type
        ELSE "General Provisions"

\* re.search of each entry of risk_patterns in the lower-cased clause
PatternMatches(name, t) ==
    CASE name = "Unlimited Liability" ->
           Lit(t, Ws1(t, Lit(t, B(t, Anywhere(t)),
                             {"unlimited", "without limit", "no cap", "uncapped"})),
               {"liability", "damages", "obligation"}) # {}
      [] name = "Harsh Penalties" ->
           B(t, Lit(t, B(t, Anywhere(t)),
                    {"penalty", "liquidated damages", "forfeit", "fine"})) # {}
      [] name = "Unilateral Termination" ->
           LET head == Ws1(t, Lit(t, Ws1(t, Lit(t, Ws1(t, Lit(t, B(t, Anywhere(t)),
                              {"may", "can", "shall"})), {"terminate"})), {"at", "with"}))
           IN  Lit(t, head, {"will", "discretion"})
                 \cup Lit(t, Ws1(t, Lit(t, head, {"any"})), {"time"}) # {}
      [] name = "Auto-Renewal" ->
           Lit(t, Ws1(t, Lit(t, B(t, Anywhere(t)), {"automatically", "auto"})),
               {"renew", "extend", "continue"}) # {}
      [] name = "Broad Indemnity" ->
           LET head == Ws1(t, Lit(t, B(t, Anywhere(t)), {"indemnify"}))
           IN  Lit(t, Ws1(t, Lit(t, Ws1(t, Lit(t, head, {"and"})), {"hold"})), {"harmless"})
                 \cup Lit(t, Ws1(t, Lit(t, head, {"from"})), {"any", "all"}) # {}
      [] name = "IP Transfer" ->
           LET verb == Ws1(t, Lit(t, B(t, Anywhere(t)), {"transfer", "assign", "convey"}))
               head == Ws0(t, verb \cup Lit(t, verb, {"all", "any"}))
           IN  Lit(t, head, {"ip", "copyright", "patent"})
                 \cup Lit(t, Ws1(t, Lit(t, head, {"intellectual"})), {"property"}) # {}
      [] name = "Non-Compete" ->
           Lit(t, B(t, Anywhere(t)), {"non-compete"})
             \cup Lit(t, Ws1(t, Lit(t, Anywhere(t), {"restrictive"})), {"covenant"})
             \cup Lit(t, Ws1(t, Lit(t, Anywhere(t), {"not"})), {"compete"}) # {}
      [] name = "Late Payment" ->
           Lit(t, Ws1(t, Lit(t, Ws1(t, Lit(t, Ws1(t, Lit(t, B(t, Anywhere(t)),
               {"interest", "penalty", "charge"})), {"on", "for"})),
               {"late", "delayed", "overdue"})), {"payment"}) # {}
      [] name = "Jurisdiction Issues" ->
           Lit(t, Ws1(t, Lit(t, B(t, Anywhere(t)), {"exclusive", "sole"})),
               {"jurisdiction"}) # {}
      [] name = "Liability Limitation" ->
           Lit(t, Ws1(t, Lit(t, B(t, Anywhere(t)), {"not", "no", "limited"})),
               {"liable", "responsibility", "obligation"}) # {}

\* risk_patterns, in declaration order
risk_patterns == <<
    [name |-> "Unlimited Liability",    severity |-> "HIGH",   category |-> "liability"],
    [name |-> "Harsh Penalties",        severity |-> "MEDIUM", category |-> "penalty_clauses"],
    [name |-> "Unilateral Termination", severity |-> "HIGH",   category |-> "unilateral_termination"],
    [name |-> "Auto-Renewal",           severity |-> "MEDIUM", category |-> "auto_renewal"],
    [name |-> "Broad Indemnity",        severity |-> "HIGH",   category |-> "indemnity"],
    [name |-> "IP Transfer",            severity |-> "HIGH",   category |-> "non_compete"],
    [name |-> "Non-Compete",            severity |-> "MEDIUM", category |-> "non_compete"],
    [name |-> "Late Payment",           severity |-> "MEDIUM", category |-> "payment_terms"],
    [name |-> "Jurisdiction Issues",    severity |-> "MEDIUM", category |-> "arbitration"],
    [name |-> "Liability Limitation",   severity |-> "MEDIUM", category |-> "liability"] >>

\* the findings of the pattern loop: one per matching pattern, in catalog order
RECURSIVE pattern_risks(_, _)
pattern_risks(clause_lower, k) ==
    IF k = 0 THEN <<>>
    ELSE LET p == risk_patterns[k]
         IN  pattern_risks(clause_lower, k - 1) \o
             (IF PatternMatches(p.name, clause_lower)
              THEN <<[risk_type   |-> p.name,
                      severity    |-> p.severity,
                      category    |-> p.category,
                      description |-> "Clause contains " \o lower(p.name) \o " language"]>>
              ELSE <<>>)

\* _detect_clause_risks leaving out the finding of the Termination rule when
\* the Unilateral Termination pattern has matched
_detect_clause_risks_suppressing(clause_text, clause_type) ==
    LET clause_lower == lower(clause_text)
    IN  pattern_risks(clause_lower, Len(risk_patterns))
        \o (IF /\ clause_type = "Termination"
               /\ ~PatternMatches("Unilateral Termination", clause_lower)
               /\ (Contains(clause_lower, "without cause") \/ Contains(clause_lower, "at will"))
            THEN <<[risk_type   |-> "Termination Without Cause",
                    severity    |-> "HIGH",
                    category    |-> "unilateral_termination",
                    description |-> "Contract can be terminated without specific cause"]>>
            ELSE <<>>)
        \o (IF /\ clause_type = "Payment Terms"
               /\ (Contains(clause_lower, "advance") \/ Contains(clause_lower, "upfront"))
            THEN <<[risk_type   |-> "Advance Payment",
                    severity    |-> "MEDIUM",
                    category    |-> "payment_terms",
                    description |-> "Requires advance or upfront payment"]>>
            ELSE <<>>)

\* _detect_clause_risks
_detect_clause_risks(clause_text, clause_type) ==
    LET clause_lower == lower(clause_text)
    IN  pattern_risks(clause_lower, Len(risk_patterns))
        \o (IF /\ clause_type = "Termination"
               /\ (Contains(clause_lower, "without cause") \/ Contains(clause_lower, "at will"))
            THEN <<[risk_type   |-> "Termination Without Cause",
                    severity    |-> "HIGH",
                    category    |-> "unilateral_termination",
                    description |-> "Contract can be terminated without specific cause"]>>
            ELSE <<>>)
        \o (IF /\ clause_type = "Payment Terms"
               /\ (Contains(clause_lower, "advance") \/ Contains(clause_lower, "upfront"))
            THEN <<[risk_type   |-> "Advance Payment",
                    severity    |-> "MEDIUM",
                    category    |-> "payment_terms",
                    description |-> "Requires advance or upfront payment"]>>
            ELSE <<>>)

-----------------------------------------------------------------------------
(***************************************************************************)
(* NLPProcessor.detect_ambiguities and ClauseAnalyzer.analyze_single_clause *)
(***************************************************************************)
\* ambiguous_patterns: each is \b(w1|w2|...)\b, matched ignoring case
ambiguous_patterns == <<
    <<"reasonable", "appropriate", "suitable", "adequate", "sufficient", "substantial">>,
    <<"may", "might", "could", "should", "would">>,
    <<"approximately", "about", "around", "roughly", "nearly">>,
    <<"promptly", "timely", "soon", "expeditiously">>,
    <<"best efforts", "reasonable efforts">>,
    <<"material", "significant", "substantial">> >>

Min(a, b) == IF a < b THEN a ELSE b
Max(a, b) == IF a > b THEN a ELSE b

\* the alternatives of a pattern that match at position i, as indices
AltsAt(t, alts, i) ==
    {a \in 1..Len(alts) : B(t, Lit(t, B(t, {i}), {alts[a]})) # {}}

\* re.finditer of one pattern from position i on: the matches left to right,
\* each taking the first alternative that matches, the scan resuming at its end
\* (starts: the positions at which some alternative matches)
RECURSIVE finditer(_, _, _, _, _)
finditer(text, t, alts, starts, i) ==
    LET ahead == {j \in starts : j >= i}
    IN  IF ahead = {} THEN <<>>
        ELSE LET m     == CHOOSE j \in ahead : \A j2 \in ahead : j <= j2
                 found == AltsAt(t, alts, m)
                 a     == CHOOSE x \in found : \A y \in found : x <= y
                 start == m - 1
                 end   == start + Len(alts[a])
             IN  <<[phrase   |-> SubSeq(text, start + 1, end),
                    context  |-> SubSeq(text, Max(0, start - 50) + 1,
                                        Min(Len(text), end + 50)),
                    position |-> start,
                    reason   |-> "Vague or subjective term"]>>
                 \o finditer(text, t, alts, starts, end + 1)

\* the matches of the first k patterns, pattern after pattern
RECURSIVE ambiguities_upto(_, _)
ambiguities_upto(text, k) ==
    IF k = 0 THEN <<>>
    ELSE LET t      == lower(text)
             alts   == ambiguous_patterns[k]
             starts == {j \in 1..Len(t) : AltsAt(t, alts, j) # {}}
         IN  ambiguities_upto(text, k - 1) \o finditer(text, t, alts, starts, 1)

\* detect_ambiguities
detect_ambiguities(text) == ambiguities_upto(text, Len(ambiguous_patterns))

\* len(clause_text.split())
word_count(text) ==
    Cardinality({i \in 1..Len(text) : ~IsSpaceAt(text, i) /\ (i = 1 \/ IsSpaceAt(text, i - 1))})

\* analyze_single_clause (obligations and key_terms, which come from the
\* spaCy pipeline, are not part of the model)
analyze_single_clause(clause_text, clause_number) ==
    LET clause_type == _classify_clause_type(clause_text)
    IN  [clause_number |-> clause_number,
         clause_type   |-> clause_type,
         risks         |-> _detect_clause_risks(clause_text, clause_type),
         ambiguities   |-> detect_ambiguities(clause_text),
         word_count    |-> word_count(clause_text)]

-----------------------------------------------------------------------------
(***************************************************************************)
(* RiskAssessor.  A score is a double (see above); overall_score, which    *)
(* is round(score, 2), is held as its number of hundredths (3333 = 33.33). *)
(***************************************************************************)
\* RISK_CATEGORIES (config.py) followed by "other": the keys of risk_breakdown,
\* in dictionary order
CategoryOrder ==
    <<"penalty_clauses", "indemnity", "unilateral_termination", "arbitration",
      "auto_renewal", "non_compete", "payment_terms", "liability",
      "confidentiality", "other">>

Categories == {CategoryOrder[k] : k \in 1..Len(CategoryOrder)}

\* RISK_CATEGORIES.get(category, category)
category_label(category) ==
    CASE category = "penalty_clauses"        -> "Penalty Clauses"
      [] category = "indemnity"              -> "Indemnity Clauses"
      [] category = "unilateral_termination" -> "Unilateral Termination"
      [] category = "arbitration"            -> "Arbitration & Jurisdiction"
      [] category = "auto_renewal"           -> "Auto-Renewal & Lock-in"
      [] category = "non_compete"            -> "Non-compete & IP Transfer"
      [] category = "payment_terms"          -> "Payment Terms"
      [] category = "liability"              -> "Liability Limitations"
      [] category = "confidentiality"        -> "Confidentiality Obligations"
      [] OTHER                               -> category

\* RISK_LEVELS[severity]["score"]
severity_score(severity) ==
    CASE severity = "LOW" -> 1 [] severity = "MEDIUM" -> 2 [] severity = "HIGH" -> 3

\* RISK_LEVELS.get(severity, RISK_LEVELS["LOW"])["score"]
llm_severity_score_low(severity) ==
    IF severity \in {"LOW", "MEDIUM", "HIGH"} THEN severity_score(severity)
    ELSE severity_score("LOW")

\* RISK_LEVELS.get(severity, RISK_LEVELS["MEDIUM"])["score"]
llm_severity_score(severity) ==
    IF severity \in {"LOW", "MEDIUM", "HIGH"} THEN severity_score(severity)
    ELSE severity_score("MEDIUM")

\* dict.get(key, default)
Get(d, key, default) == IF key \in DOMAIN d THEN d[key] ELSE default

\* risk_weights with the values of auto_renewal and non_compete exchanged
risk_weights_exchanged ==
    [c \in Categories \ {"other"} |->
       CASE c = "penalty_clauses"        -> FTenths(12)
         [] c = "indemnity"              -> FTenths(15)
         [] c = "unilateral_termination" -> FTenths(18)
         [] c = "arbitration"            -> FTenths(10)
         [] c = "auto_renewal"           -> FTenths(14)
         [] c = "non_compete"            -> FTenths(13)
         [] c = "payment_terms"          -> FTenths(12)
         [] c = "liability"              -> FTenths(16)
         [] c = "confidentiality"        -> FTenths(8)]

\* self.risk_weights: 1.2, 1.5, 1.8, 1.0, 1.3, 1.4, 1.2, 1.6, 0.8
risk_weights ==
    [c \in Categories \ {"other"} |->
       CASE c = "penalty_clauses"        -> FTenths(12)
         [] c = "indemnity"              -> FTenths(15)
         [] c = "unilateral_termination" -> FTenths(18)
         [] c = "arbitration"            -> FTenths(10)
         [] c = "auto_renewal"           -> FTenths(13)
         [] c = "non_compete"            -> FTenths(14)
         [] c = "payment_terms"          -> FTenths(12)
         [] c = "liability"              -> FTenths(16)
         [] c = "confidentiality"        -> FTenths(8)]

\* self.risk_weights.get(category, 1.0)
risk_weight(category) == Get(risk_weights, category, FromInt(1))

\* _categorize_llm_risk
_categorize_llm_risk(risk_type) ==
    LET t == lower(risk_type)
    IN  IF Contains(t, "payment") \/ Contains(t, "fee") THEN "payment_terms"
        ELSE IF Contains(t, "terminat") THEN "unilateral_termination"
        ELSE IF Contains(t, "indemnity") \/ Contains(t, "indemnif") THEN "indemnity"
        ELSE IF Contains(t, "liability") \/ Contains(t, "liable") THEN "liability"
        ELSE IF Contains(t, "penalty") \/ Contains(t, "penalt") THEN "penalty_clauses"
        ELSE IF Contains(t, "compete") \/ Contains(t, "non-compete") THEN "non_compete"
        ELSE IF Contains(t, "renewal") \/ Contains(t, "renew") THEN "auto_renewal"
        ELSE IF Contains(t, "arbitration") \/ Contains(t, "jurisdiction") THEN "arbitration"
        ELSE IF Contains(t, "confidential") THEN "confidentiality"
        ELSE "other"

\* the findings of the clauses, in processing order, each with the fields the
\* loop over analyzed_clauses reads or computes
RECURSIVE clause_entries(_)
clause_entries(clauses) ==
    IF clauses = <<>> THEN <<>>
    ELSE LET clause == clauses[Len(clauses)]
             risks  == Get(clause, "risks", <<>>)
         IN  clause_entries(SubSeq(clauses, 1, Len(clauses) - 1)) \o
             [k \in 1..Len(risks) |->
                LET risk     == risks[k]
                    category == Get(risk, "category", "other")
                    severity == Get(risk, "severity", "MEDIUM")
                IN  [category |-> category,
                     entry |-> [clause_id   |-> Get(clause, "clause_id", "Unknown"),
                                risk_type   |-> Get(risk, "risk_type", "Unknown Risk"),
                                severity    |-> severity,
                                score       |-> FMulInt(severity_score(severity),
                                                        risk_weight(category)),
                                description |-> Get(risk, "description", "")]]]

\* the same for the loop over llm_risks, which runs only "if llm_risks"
llm_entries(risks, given) ==
    IF ~given THEN <<>>
    ELSE [k \in 1..Len(risks) |->
            LET risk      == risks[k]
                severity  == Get(risk, "severity", "MEDIUM")
                risk_type == Get(risk, "type", "General Risk")
                category  == _categorize_llm_risk(risk_type)
            IN  [category |-> category,
                 entry |-> [clause_id   |-> "LLM Analysis",
                            risk_type   |-> risk_type,
                            severity    |-> severity,
                            score       |-> FMulInt(llm_severity_score(severity),
                                                    risk_weight(category)),
                            description |-> Get(risk, "description", "")]]]

\* total_risk_score += risk_score, entry after entry, starting from 0
RECURSIVE total_risk_score(_)
total_risk_score(entries) ==
    IF entries = <<>> THEN FZero
    ELSE FAdd(total_risk_score(SubSeq(entries, 1, Len(entries) - 1)),
              entries[Len(entries)].entry.score)

\* risk_breakdown[category].insert(0, ...): the latest entry first
risk_breakdown_latest_first(entries) ==
    [c \in Categories |->
       LET of_c == SelectSeq(entries, LAMBDA e : e.category = c)
       IN  [k \in 1..Len(of_c) |-> of_c[Len(of_c) + 1 - k].entry]]

\* risk_breakdown[category].append(...), entry after entry
risk_breakdown_of(entries) ==
    [c \in Categories |->
       LET of_c == SelectSeq(entries, LAMBDA e : e.category = c)
       IN  [k \in 1..Len(of_c) |-> of_c[k].entry]]

\* the normalized score without the cap min(100, ...)
normalized_score_uncapped(total, clause_count) ==
    IF clause_count > 0
    THEN FMulInt(20, FDivInt(total, clause_count))
    ELSE FZero

\* the normalized score with the empty contract guarded by max(clause_count, 1)
normalized_score_max1(total, clause_count) ==
    LET scaled == FMulInt(20, FDivInt(total, Max(clause_count, 1)))
    IN  IF FLess(scaled, 100) THEN scaled ELSE FromInt(100)

\* the normalized score (0-100) of lines 92-96
normalized_score(total, clause_count) ==
    IF clause_count > 0
    THEN LET avg_risk_per_clause == FDivInt(total, clause_count)
             scaled == FMulInt(20, avg_risk_per_clause)
         IN  IF FLess(scaled, 100) THEN scaled ELSE FromInt(100)
    ELSE FZero

\* _determine_risk_level
_determine_risk_level(score) ==
    IF FGeq(score, 70) THEN "HIGH"
    ELSE IF FGeq(score, 40) THEN "MEDIUM"
    ELSE "LOW"

\* _get_high_priority_risks: category after category, the HIGH entries
\* _get_high_priority_risks taking every finding that is not LOW
RECURSIVE _get_high_priority_risks_not_low(_, _)
_get_high_priority_risks_not_low(risk_breakdown, k) ==
    IF k = 0 THEN <<>>
    ELSE LET category == CategoryOrder[k]
             high == SelectSeq(risk_breakdown[category], LAMBDA r : r.severity # "LOW")
         IN  _get_high_priority_risks_not_low(risk_breakdown, k - 1) \o
             [j \in 1..Len(high) |->
                [category    |-> category_label(category),
                 risk_type   |-> high[j].risk_type,
                 clause_id   |-> high[j].clause_id,
                 description |-> high[j].description]]

RECURSIVE _get_high_priority_risks(_, _)
_get_high_priority_risks(risk_breakdown, k) ==
    IF k = 0 THEN <<>>
    ELSE LET category == CategoryOrder[k]
             high == SelectSeq(risk_breakdown[category], LAMBDA r : r.severity = "HIGH")
         IN  _get_high_priority_risks(risk_breakdown, k - 1) \o
             [j \in 1..Len(high) |->
                [category    |-> category_label(category),
                 risk_type   |-> high[j].risk_type,
                 clause_id   |-> high[j].clause_id,
                 description |-> high[j].description]]

RECURSIVE SumLen(_, _)
SumLen(risk_breakdown, k) ==
    IF k = 0 THEN 0 ELSE SumLen(risk_breakdown, k - 1) + Len(risk_breakdown[CategoryOrder[k]])

\* assess_contract_risk averaging over the findings instead of the clauses
assess_contract_risk_per_finding(clauses, risks, given) ==
    LET entries          == clause_entries(clauses) \o llm_entries(risks, given)
        risk_breakdown   == risk_breakdown_of(entries)
        score            == normalized_score(total_risk_score(entries),
                                             IF clauses = <<>> THEN 0 ELSE Len(entries))
    IN  [overall_score       |-> Round2(score),
         overall_level       |-> _determine_risk_level(score),
         total_risks_found   |-> SumLen(risk_breakdown, Len(CategoryOrder)),
         risk_breakdown      |-> risk_breakdown,
         high_priority_risks |-> _get_high_priority_risks(risk_breakdown, Len(CategoryOrder))]

\* assess_contract_risk (risk_summary and recommendation, two display texts
\* derived from the fields below, are not part of the model)
assess_contract_risk(clauses, risks, given) ==
    LET entries          == clause_entries(clauses) \o llm_entries(risks, given)
        risk_breakdown   == risk_breakdown_of(entries)
        score            == normalized_score(total_risk_score(entries), Len(clauses))
    IN  [overall_score       |-> Round2(score),
         overall_level       |-> _determine_risk_level(score),
         total_risks_found   |-> SumLen(risk_breakdown, Len(CategoryOrder)),
         risk_breakdown      |-> risk_breakdown,
         high_priority_risks |-> _get_high_priority_risks(risk_breakdown, Len(CategoryOrder))]

\* strategy_templates of generate_risk_mitigation_strategies
strategy_templates ==
    [unilateral_termination |->
        [strategy |-> "Negotiate for mutual termination rights or require specific cause",
         actions  |-> <<"Request 60-90 days notice period",
                        "Define specific termination causes",
                        "Add termination fee for early exit">>],
     indemnity |->
        [strategy |-> "Limit indemnification scope and cap liability",
         actions  |-> <<"Cap indemnity at contract value",
                        "Exclude indirect/consequential damages",
                        "Add mutual indemnification clause">>],
     liability |->
        [strategy |-> "Add liability caps and exclusions",
         actions  |-> <<"Cap total liability at 2x contract value",
                        "Exclude force majeure events",
                        "Define scope of liability clearly">>],
     penalty_clauses |->
        [strategy |-> "Negotiate reasonable penalty amounts",
         actions  |-> <<"Cap penalties at specific percentage",
                        "Allow cure period before penalties apply",
                        "Make penalties proportionate to breach">>],
     auto_renewal |->
        [strategy |-> "Add opt-in renewal or longer notice period",
         actions  |-> <<"Change to opt-in renewal",
                        "Require 90-day advance notice",
                        "Allow price renegotiation at renewal">>],
     non_compete |->
        [strategy |-> "Narrow scope and duration of restrictions",
         actions  |-> <<"Limit to specific geography",
                        "Reduce duration to 1 year",
                        "Define restricted activities specifically">>]]

\* the loop of generate_risk_mitigation_strategies over risk_breakdown.items(),
\* up to the k-th category
RECURSIVE strategies_upto(_, _)
strategies_upto(breakdown, k) ==
    IF k = 0 THEN <<>>
    ELSE LET category == CategoryOrder[k]
             found    == Get(breakdown, category, <<>>)
         IN  strategies_upto(breakdown, k - 1) \o
             (IF found # <<>> /\ category \in DOMAIN strategy_templates
              THEN <<[risk_category    |-> category_label(category),
                      affected_clauses |-> Len(found),
                      strategy         |-> strategy_templates[category].strategy,
                      actions          |-> strategy_templates[category].actions,
                      priority         |-> IF \E j \in 1..Len(found) :
                                                 Get(found[j], "severity", "") = "HIGH"
                                           THEN "HIGH" ELSE "MEDIUM"]>>
              ELSE <<>>)

\* generate_risk_mitigation_strategies without the final sort
generate_risk_mitigation_strategies_unsorted(assessment) ==
    strategies_upto(Get(assessment, "risk_breakdown", [c \in {} |-> <<>>]), Len(CategoryOrder))

\* generate_risk_mitigation_strategies: list.sort is stable, HIGH (key 0)
\* before the others (key 1)
generate_risk_mitigation_strategies(assessment) ==
    LET strategies == strategies_upto(Get(assessment, "risk_breakdown", [c \in {} |-> <<>>]),
                                      Len(CategoryOrder))
    IN  SelectSeq(strategies, LAMBDA x : x.priority = "HIGH") \o
        SelectSeq(strategies, LAMBDA x : x.priority # "HIGH")

-----------------------------------------------------------------------------
(***************************************************************************)
(* ClauseAnalyzer.identify_unfavorable_clauses                             *)
(***************************************************************************)
PreviewLen == 200

\* the loop body with the two tests in the other order
unfavorable_entry_ambiguity_first(clause) ==
    LET high_risks == SelectSeq(Get(clause, "risks", <<>>), LAMBDA r : r.severity = "HIGH")
        text == SubSeq(Get(clause, "original_text", ""), 1,
                       Min(PreviewLen, Len(Get(clause, "original_text", "")))) \o "..."
    IN  IF Len(Get(clause, "ambiguities", <<>>)) > 2
        THEN <<[clause_id   |-> clause.clause_id,
                clause_type |-> clause.clause_type,
                reasons     |-> <<"Multiple Ambiguous Terms">>,
                text        |-> text,
                severity    |-> "MEDIUM"]>>
        ELSE IF high_risks # <<>>
        THEN <<[clause_id   |-> clause.clause_id,
                clause_type |-> clause.clause_type,
                reasons     |-> [k \in 1..Len(high_risks) |-> high_risks[k].risk_type],
                text        |-> text,
                severity    |-> "HIGH"]>>
        ELSE <<>>

\* the loop body with the ambiguity threshold at 2 instead of more than 2
unfavorable_entry_two_ambiguities(clause) ==
    LET high_risks == SelectSeq(Get(clause, "risks", <<>>), LAMBDA r : r.severity = "HIGH")
        text == SubSeq(Get(clause, "original_text", ""), 1,
                       Min(PreviewLen, Len(Get(clause, "original_text", "")))) \o "..."
    IN  IF high_risks # <<>>
        THEN <<[clause_id   |-> clause.clause_id,
                clause_type |-> clause.clause_type,
                reasons     |-> [k \in 1..Len(high_risks) |-> high_risks[k].risk_type],
                text        |-> text,
                severity    |-> "HIGH"]>>
        ELSE IF Len(Get(clause, "ambiguities", <<>>)) >= 2
        THEN <<[clause_id   |-> clause.clause_id,
                clause_type |-> clause.clause_type,
                reasons     |-> <<"Multiple Ambiguous Terms">>,
                text        |-> text,
                severity    |-> "MEDIUM"]>>
        ELSE <<>>

\* one iteration of the loop: the entry a clause adds, if any
unfavorable_entry(clause) ==
    LET high_risks == SelectSeq(Get(clause, "risks", <<>>), LAMBDA r : r.severity = "HIGH")
        text == SubSeq(Get(clause, "original_text", ""), 1,
                       Min(PreviewLen, Len(Get(clause, "original_text", "")))) \o "..."
    IN  IF high_risks # <<>>
        THEN <<[clause_id   |-> clause.clause_id,
                clause_type |-> clause.clause_type,
                reasons     |-> [k \in 1..Len(high_risks) |-> high_risks[k].risk_type],
                text        |-> text,
                severity    |-> "HIGH"]>>
        ELSE IF Len(Get(clause, "ambiguities", <<>>)) > 2
        THEN <<[clause_id   |-> clause.clause_id,
                clause_type |-> clause.clause_type,
                reasons     |-> <<"Multiple Ambiguous Terms">>,
                text        |-> text,
                severity    |-> "MEDIUM"]>>
        ELSE <<>>

RECURSIVE identify_unfavorable_clauses(_)
identify_unfavorable_clauses(clauses) ==
    IF clauses = <<>> THEN <<>>
    ELSE identify_unfavorable_clauses(SubSeq(clauses, 1, Len(clauses) - 1))
         \o unfavorable_entry(clauses[Len(clauses)])

-----------------------------------------------------------------------------
(***************************************************************************)
(* ContractAnalyzer: the LLM collaborator.  A call of the API either       *)
(* raises (kind "raises"), or answers with a text (kind "str"), or answers  *)
(* without content (None).                                                 *)
(***************************************************************************)
\* the first index from 1 at which sep occurs in s, 0 if it does not
Find(s, sep) ==
    LET hits == {j \in 1..(Len(s) - Len(sep) + 1) : SubSeq(s, j, j + Len(sep) - 1) = sep}
    IN  IF hits = {} THEN 0 ELSE CHOOSE j \in hits : \A h \in hits : j <= h

\* str.split(sep)
RECURSIVE split(_, _)
split(s, sep) ==
    LET j == Find(s, sep)
    IN  IF j = 0 THEN <<s>>
        ELSE <<SubSeq(s, 1, j - 1)>> \o split(SubSeq(s, j + Len(sep), Len(s)), sep)

\* str.startswith(prefix)
startswith(s, prefix) == Len(s) >= Len(prefix) /\ SubSeq(s, 1, Len(prefix)) = prefix

\* str.strip()
strip(s) ==
    LET inked == {j \in 1..Len(s) : ~IsSpaceAt(s, j)}
    IN  IF inked = {} THEN ""
        ELSE SubSeq(s, CHOOSE j \in inked : \A h \in inked : j <= h,
                       CHOOSE j \in inked : \A h \in inked : j >= h)

\* line.split(":", 1)[1].strip()
after_colon(line) == strip(SubSeq(line, Find(line, ":") + 1, Len(line)))

\* _call_llm: the content of the API's answer (a str or None), or the error
\* text when the call raises
_call_llm(outcome) ==
    IF outcome.kind = "raises" THEN Str("Error calling LLM: " \o outcome.value)
    ELSE outcome

\* the loop of classify_contract_type over the lines of the response
RECURSIVE classify_lines(_, _)
classify_lines(lines, parsed) ==
    IF lines = <<>> THEN parsed
    ELSE LET line == Head(lines)
         IN  classify_lines(Tail(lines),
                 IF startswith(line, "Contract Type:")
                 THEN [parsed EXCEPT !.contract_type = after_colon(line)]
                 ELSE IF startswith(line, "Confidence:")
                 THEN [parsed EXCEPT !.confidence = after_colon(line)]
                 ELSE IF startswith(line, "Reasoning:")
                 THEN [parsed EXCEPT !.reasoning = after_colon(line)]
                 ELSE parsed)

\* classify_contract_type, given what _call_llm returned (not None)
classify_contract_type(response) ==
    classify_lines(split(response, "\n"),
                   [contract_type |-> "General Contract", confidence |-> "Medium",
                    reasoning |-> ""])

\* the loop of identify_risks over the lines of one block
RECURSIVE risk_of_lines(_, _)
risk_of_lines(lines, risk) ==
    IF lines = <<>> THEN risk
    ELSE LET line == Head(lines)
         IN  risk_of_lines(Tail(lines),
                 IF startswith(line, "RISK:")
                 THEN ("type" :> after_colon(line)) @@ risk
                 ELSE IF startswith(line, "SEVERITY:")
                 THEN ("severity" :> after_colon(line)) @@ risk
                 ELSE IF startswith(line, "DESCRIPTION:")
                 THEN ("description" :> after_colon(line)) @@ risk
                 ELSE IF startswith(line, "IMPACT:")
                 THEN ("impact" :> after_colon(line)) @@ risk
                 ELSE risk)

\* the loop of identify_risks over the blocks
RECURSIVE risks_of_blocks(_)
risks_of_blocks(risk_blocks) ==
    IF risk_blocks = <<>> THEN <<>>
    ELSE LET block == Head(risk_blocks)
             risk  == risk_of_lines(split(block, "\n"), [f \in {} |-> ""])
         IN  (IF strip(block) # "" /\ DOMAIN risk # {} THEN <<risk>> ELSE <<>>)
             \o risks_of_blocks(Tail(risk_blocks))

\* identify_risks, given what _call_llm returned (not None)
identify_risks(response) == risks_of_blocks(split(response, "---"))

\* generate_negotiation_points, given what _call_llm returned (not None): the
\* lines that start with a digit or a dash
generate_negotiation_points(response) ==
    LET lines == split(response, "\n")
        kept  == SelectSeq(lines, LAMBDA line :
                     /\ strip(line) # ""
                     /\ \/ SubSeq(line, 1, 1) \in {"0","1","2","3","4","5","6","7","8","9"}
                        \/ startswith(line, "-"))
    IN  [k \in 1..Len(kept) |-> strip(kept[k])]

-----------------------------------------------------------------------------
(***************************************************************************)
(* The analysis of one contract, as analyze_contract (app.py) drives it:   *)
(* step 4 analyses the clauses one after the other, step 5 obtains the     *)
(* LLM risks, step 6 assesses the risk and selects the unfavorable         *)
(* clauses.                                                                *)
(***************************************************************************)
MaxClauses == 3
MaxLLMRisks == 1
\* the largest contract on which the effect of every added finding is computed
MaxClausesCompared == 2

\* the clause texts contracts are made of
ClauseTexts == <<
    "The Company may terminate this agreement at any time at its sole discretion.",
    "Vendor's liability shall be unlimited for any damages arising from this agreement.",
    "The Company may terminate at any time and at will, without notice to the Vendor.",
    "The Employee shall assign all intellectual property to the Company and accepts a non-compete covenant.",
    "This agreement shall automatically renew each year and the annual fee, which may be revised, should be payable in advance.",
    "The Vendor shall indemnify and hold harmless the Company from any claim. The Company may, at its reasonable discretion, request that the Vendor promptly provide adequate evidence of insurance, and the Vendor should comply within a reasonable period.",
    "Each party should use reasonable efforts to respond promptly to any request of the other party, and may ask for an appropriate extension where the request cannot be met within the agreed set of dates." >>

\* the risks the LLM collaborator may report (identify_risks)
LLMRisks == {
    [type |-> "Termination Risk", severity |-> "HIGH",
     description |-> "Either party may exit on short notice"],
    [type |-> "Data Privacy", severity |-> "LOW",
     description |-> "Personal data handling is not described"],
    [type |-> "Confidentiality Breach", severity |-> "Critical",
     description |-> "No remedy for disclosure"],
    [type |-> "Late Delivery Penalties", severity |-> "high",
     description |-> "Penalties accrue daily without a cap"],
    [type |-> "Auto-Renewal and Fee Increase",
     description |-> "The fee may rise at each renewal"] }

\* analyze_single_clause of each text (clause_number is set per contract)
text_analysis == [t \in 1..Len(ClauseTexts) |-> analyze_single_clause(ClauseTexts[t], 0)]

\* analyze_clauses, one iteration of its loop: the next clause of the contract,
\* numbered n by the segmenter, has the text ClauseTexts[t]
analyze_clauses_step(t) ==
    /\ pc = "clauses"
    /\ Len(analyzed_clauses) < MaxClauses
    /\ LET n == Len(analyzed_clauses) + 1
           analysis == text_analysis[t]
       IN  analyzed_clauses' = Append(analyzed_clauses,
               [clause_number |-> n,
                clause_type   |-> analysis.clause_type,
                risks         |-> analysis.risks,
                ambiguities   |-> analysis.ambiguities,
                word_count    |-> analysis.word_count,
                clause_id     |-> ToString(n) \o ".",
                original_text |-> ClauseTexts[t]])
    /\ UNCHANGED <<llm_risks, llm_given, pc, risk_assessment, unfavorable_clauses>>
    /\ UNCHANGED mitigation_strategies
    /\ UNCHANGED outside_pipeline

\* analyze_clauses returns: step 4 is over
analyze_clauses_return ==
    /\ pc = "clauses"
    /\ pc' = "llm"
    /\ UNCHANGED <<analyzed_clauses, llm_risks, llm_given, risk_assessment, unfavorable_clauses>>
    /\ UNCHANGED mitigation_strategies
    /\ UNCHANGED outside_pipeline

\* step 5: identify_risks reports one more risk
identify_risks_step(r) ==
    /\ pc = "llm"
    /\ llm_given
    /\ Len(llm_risks) < MaxLLMRisks
    /\ llm_risks' = Append(llm_risks, r)
    /\ UNCHANGED <<analyzed_clauses, llm_given, pc, risk_assessment, unfavorable_clauses>>
    /\ UNCHANGED mitigation_strategies
    /\ UNCHANGED outside_pipeline

\* assess_contract_risk is called without its second argument (llm_risks = None)
no_llm_risks ==
    /\ pc = "llm"
    /\ llm_given
    /\ llm_risks = <<>>
    /\ llm_given' = FALSE
    /\ UNCHANGED <<analyzed_clauses, llm_risks, pc, risk_assessment, unfavorable_clauses>>
    /\ UNCHANGED mitigation_strategies
    /\ UNCHANGED outside_pipeline

\* step 6: risk assessment and unfavorable clauses
risk_step ==
    /\ pc = "llm"
    /\ risk_assessment' = assess_contract_risk(analyzed_clauses, llm_risks, llm_given)
    /\ unfavorable_clauses' = identify_unfavorable_clauses(analyzed_clauses)
    /\ mitigation_strategies' = generate_risk_mitigation_strategies(risk_assessment')
    /\ pc' = "done"
    /\ UNCHANGED <<analyzed_clauses, llm_risks, llm_given>>
    /\ UNCHANGED outside_pipeline

\* app.py is not running
app_not_started ==
    /\ environment = [LLM_PROVIDER |-> None, OPENAI_API_KEY |-> None]
    /\ app = [pc |-> "idle", runs |-> 0, constructed |-> 0, exception |-> None]
    /\ streamlit = [session_state |-> [analysis_results |-> None,
                                       uploaded_file_name |-> None],
                    uploaded_file |-> None]

\* the sessions of the app, each run by a thread of its own, and a session
\* that is not inside create_audit_log
MaxSessions == 2
Sessions == 1..MaxSessions
not_calling == [at |-> "outside", audit_file |-> "", logs |-> <<>>]

\* analyze_contract has not been entered
analysis_not_started ==
    /\ doc_result = None
    /\ language_info = None
    /\ entities = None
    /\ executed = <<>>
    /\ api_raised = {}
    /\ classification = None
    /\ llm_summary = None
    /\ compliance = None
    /\ negotiation_points = <<>>
    /\ messages = <<>>
    /\ results = NotReturned

Init ==
    /\ analyzed_clauses = <<>>
    /\ llm_risks = <<>>
    /\ llm_given = TRUE
    /\ pc = "clauses"
    /\ risk_assessment = <<>>
    /\ unfavorable_clauses = <<>>
    /\ mitigation_strategies = <<>>
    /\ classified_text = ""
    /\ labels = <<>>
    /\ detected = <<>>
    /\ analysis_not_started
    /\ app_not_started
    /\ document_pieces = <<>>
    /\ extracted = <<>>
    /\ extracted_from = <<>>
    /\ audit_files = [f \in {} |-> <<>>]
    /\ now = 0
    /\ audit_calls = 0
    /\ audit_sessions = [session \in Sessions |-> not_calling]
    /\ doc_sents = <<>>
    /\ obligations_found = <<>>

Next ==
    \/ \E t \in 1..Len(ClauseTexts) : analyze_clauses_step(t)
    \/ analyze_clauses_return
    \/ \E r \in LLMRisks : identify_risks_step(r)
    \/ no_llm_risks
    \/ risk_step

Spec == Init /\ [][Next]_vars

-----------------------------------------------------------------------------
(***************************************************************************)
(* analyze_contract (app.py) from its first step: one action per step.     *)
(* The collaborators of steps 1 to 3 and the LLM API answer as they like;  *)
(* a document is known by the length of its text and by the clauses        *)
(* extract_clauses finds in it.                                            *)
(***************************************************************************)
MaxDocumentClauses == 1
MinTextLength == 100

\* the length of the text of a document with these clauses: each on a line
\* of its own after its number, in a text of at least 100 characters
RECURSIVE ClausesLength(_)
ClausesLength(cl) ==
    IF cl = <<>> THEN 0 ELSE Len(ClauseTexts[Head(cl)]) + 4 + ClausesLength(Tail(cl))

\* what process_uploaded_file may return: a failure, a text that is empty or
\* one character short, and texts with up to MaxDocumentClauses clauses
Documents ==
    {[success |-> FALSE, error |-> "Unsupported file format", text_length |-> 0,
      clause_index |-> <<>>]}
    \cup {[success |-> TRUE, error |-> "", text_length |-> n, clause_index |-> <<>>]
            : n \in {0, MinTextLength - 1}}
    \cup {[success |-> TRUE, error |-> "",
           text_length |-> Max(MinTextLength, ClausesLength(cl)), clause_index |-> cl]
            : cl \in UNION {[1..n -> 1..Len(ClauseTexts)] : n \in 0..MaxDocumentClauses}}

\* the calls of ContractAnalyzer that analyze_contract makes
LLMCalls == {"classify_contract_type", "generate_summary", "identify_risks",
             "check_compliance", "generate_negotiation_points"}

\* what the API may answer to the prompt of each call
Responses ==
    [classify_contract_type |->
        {"Contract Type: Vendor Contract\nConfidence: High\nReasoning: Supply of goods"},
     generate_summary |->
        {"The vendor supplies goods and the company pays for them monthly."},
     identify_risks |->
        {"RISK: Termination Risk\nSEVERITY: HIGH\nDESCRIPTION: Either party may exit on short notice\nIMPACT: Loss of revenue\n---\n",
         "No significant risks were found.\n---\nRISK: Data Privacy\nDESCRIPTION: Personal data handling is not described\n---\nRISK: Payment Risk\nSEVERITY: Critical\n"},
     check_compliance |->
        {"1. Compliance Status: Needs Review"},
     generate_negotiation_points |->
        {"Suggested points:\n1. Ask for a 60 day notice period\n - Cap the liability\n-Request mutual termination rights\n"}]

\* the outcomes of one API call: it raises, it answers None, it answers a text
ApiOutcomes(call) ==
    {[kind |-> "raises", value |-> "Connection error."], None}
    \cup {Str(r) : r \in Responses[call]}

\* analyze_clauses on the text of the document
analyze_clauses(cl) ==
    [n \in 1..Len(cl) |->
        [clause_number |-> n,
         clause_type   |-> text_analysis[cl[n]].clause_type,
         risks         |-> text_analysis[cl[n]].risks,
         ambiguities   |-> text_analysis[cl[n]].ambiguities,
         word_count    |-> text_analysis[cl[n]].word_count,
         clause_id     |-> ToString(n) \o ".",
         original_text |-> ClauseTexts[cl[n]]]]

\* st.error(...) and return None
abort(error_text) ==
    /\ messages' = Append(messages, [kind |-> "error", text |-> error_text])
    /\ results' = None
    /\ pc' = "returned"

\* the test of the text letting a text of 99 characters pass
text_too_short_below_limit(doc) == doc.text_length = 0 \/ doc.text_length < MinTextLength - 1

\* not text or len(text) < 100
text_too_short(doc) == doc.text_length = 0 \/ doc.text_length < MinTextLength

\* step 1: process the document and decide whether to go on
step1_process_document(doc) ==
    /\ pc = "step1"
    /\ doc_result' = doc
    /\ executed' = Append(executed, "process_uploaded_file")
    /\ IF ~doc.success
       THEN abort("Error processing document: " \o doc.error)
       ELSE IF text_too_short(doc)
       THEN abort("Document appears to be empty or too short. Please upload a valid contract.")
       ELSE pc' = "step2" /\ UNCHANGED <<messages, results>>
    /\ UNCHANGED <<language_info, entities, analyzed_clauses, llm_risks, llm_given, risk_assessment,
                   unfavorable_clauses, mitigation_strategies, api_raised, classification,
                   llm_summary, compliance, negotiation_points, classifier_vars, app_vars, segmenter_vars, audit_vars, obligation_vars>>

\* langdetect's detect and detect_langs on an English text
langdetect == [detect |-> "en", detect_langs |-> <<"en:0.99">>]

\* MultilingualHandler.detect_language on a text of Latin letters that is not
\* blank: the answer built from langdetect, or the fallback of the except
\* branch when langdetect raises
detect_language(langdetect_returns) ==
    IF langdetect_returns
    THEN [kind             |-> "language_info",
          primary_language |-> langdetect.detect,
          is_multilingual  |-> Len(langdetect.detect_langs) > 1,
          has_hindi        |-> FALSE,
          has_english      |-> TRUE,
          languages        |-> langdetect.detect_langs,
          error            |-> None]
    ELSE [kind             |-> "language_info",
          primary_language |-> "en",
          is_multilingual  |-> FALSE,
          has_hindi        |-> FALSE,
          has_english      |-> TRUE,
          languages        |-> <<>>,
          error            |-> Str("No features in text.")]

\* step 2: detect the language; langdetect returns or raises inside
\* detect_language, which returns an answer in both cases
step2_detect_language(langdetect_returns) ==
    /\ pc = "step2"
    /\ executed' = Append(executed, "detect_language")
    /\ language_info' = detect_language(langdetect_returns)
    /\ pc' = "step3"
    /\ UNCHANGED <<analyzed_clauses, llm_risks, llm_given, risk_assessment,
                   unfavorable_clauses, mitigation_strategies, doc_result, entities,
                   api_raised, classification, llm_summary, compliance,
                   negotiation_points, messages, results,
                   classifier_vars, app_vars, segmenter_vars, audit_vars, obligation_vars>>

\* EntityExtractor.extract_all_entities: the eight lists, the parties being
\* those the spaCy pipeline names (the pattern matches are left out)
extract_all_entities(ner_parties) ==
    [kind          |-> "entities",
     parties       |-> ner_parties,
     dates         |-> <<>>,
     amounts       |-> <<>>,
     durations     |-> <<>>,
     jurisdictions |-> <<>>,
     emails        |-> <<>>,
     phone_numbers |-> <<>>,
     addresses     |-> <<>>]

\* step 3: extract the entities; the spaCy pipeline returns or raises, and
\* self.nlp(text[:5000]) stands in no try, so that its exception reaches the
\* except of analyze_contract
step3_extract_entities(nlp_returns) ==
    /\ pc = "step3"
    /\ executed' = Append(executed, "extract_all_entities")
    /\ IF nlp_returns
       THEN /\ entities' = extract_all_entities(<<"Acme Corp">>)
            /\ pc' = "step4"
            /\ UNCHANGED <<messages, results>>
       ELSE /\ abort("Error during analysis: spaCy pipeline failed")
            /\ UNCHANGED entities
    /\ UNCHANGED <<analyzed_clauses, llm_risks, llm_given, risk_assessment,
                   unfavorable_clauses, mitigation_strategies, doc_result, language_info,
                   api_raised, classification, llm_summary, compliance,
                   negotiation_points,
                   classifier_vars, app_vars, segmenter_vars, audit_vars, obligation_vars>>

\* step 4: analyze the clauses
step4_analyze_clauses ==
    /\ pc = "step4"
    /\ executed' = Append(executed, "analyze_clauses")
    /\ analyzed_clauses' = analyze_clauses(doc_result.clause_index)
    /\ pc' = "step5"
    /\ UNCHANGED <<language_info, entities, llm_risks, llm_given, risk_assessment, unfavorable_clauses,
                   mitigation_strategies, doc_result, api_raised, classification,
                   llm_summary, compliance, negotiation_points, messages, results,
                   classifier_vars, app_vars, segmenter_vars, audit_vars, obligation_vars>>

\* step 5: the four LLM calls inside try, and the except branch.  A call
\* whose answer has no content makes classify_contract_type and identify_risks
\* raise (None has no split); generate_summary and check_compliance pass the
\* None on.
step5_llm_analysis(outcome) ==
    /\ pc = "step5"
    /\ LET classify_response   == _call_llm(outcome["classify_contract_type"])
           summary_response    == _call_llm(outcome["generate_summary"])
           risks_response      == _call_llm(outcome["identify_risks"])
           compliance_response == _call_llm(outcome["check_compliance"])
           calls == IF classify_response = None
                    THEN <<"classify_contract_type">>
                    ELSE IF risks_response = None
                    THEN <<"classify_contract_type", "generate_summary", "identify_risks">>
                    ELSE <<"classify_contract_type", "generate_summary", "identify_risks",
                           "check_compliance">>
           raised == classify_response = None \/ risks_response = None
       IN  /\ executed' = executed \o calls
           /\ api_raised' = {calls[k] : k \in {j \in 1..Len(calls) :
                                                   outcome[calls[j]].kind = "raises"}}
           /\ IF raised
              THEN /\ messages' = Append(messages,
                        [kind |-> "warning",
                         text |-> "LLM analysis unavailable: 'NoneType' object has no attribute 'split'. Continuing with NLP-based analysis."])
                   /\ classification' = [contract_type |-> "General Contract",
                                         confidence |-> "Low",
                                         reasoning |-> "LLM unavailable"]
                   /\ llm_summary' = Str("AI-powered summary unavailable. Please check your API key configuration.")
                   /\ llm_risks' = <<>>
                   /\ compliance' = [full_analysis |-> Str("Compliance check unavailable")]
              ELSE /\ classification' = classify_contract_type(classify_response.value)
                   /\ llm_summary' = summary_response
                   /\ llm_risks' = identify_risks(risks_response.value)
                   /\ compliance' = [full_analysis |-> compliance_response]
                   /\ UNCHANGED messages
    /\ pc' = "step6"
    /\ UNCHANGED <<language_info, entities, analyzed_clauses, llm_given, risk_assessment, unfavorable_clauses,
                   mitigation_strategies, doc_result, negotiation_points, results,
                   classifier_vars, app_vars, segmenter_vars, audit_vars, obligation_vars>>

\* step 6: risk assessment, unfavorable clauses, mitigation strategies and, if
\* a clause is unfavorable, the negotiation points (try / bare except)
step6_risk_assessment(outcome) ==
    /\ pc = "step6"
    /\ LET unfavorable == identify_unfavorable_clauses(analyzed_clauses)
           response    == _call_llm(outcome)
       IN  /\ risk_assessment' = assess_contract_risk(analyzed_clauses, llm_risks, TRUE)
           /\ unfavorable_clauses' = unfavorable
           /\ mitigation_strategies' = generate_risk_mitigation_strategies(risk_assessment')
           /\ negotiation_points' =
                 IF unfavorable = <<>> THEN <<>>
                 ELSE IF response = None
                 THEN <<"Negotiation points unavailable - LLM not configured">>
                 ELSE generate_negotiation_points(response.value)
           /\ executed' = executed \o
                 <<"assess_contract_risk", "identify_unfavorable_clauses",
                   "generate_risk_mitigation_strategies">> \o
                 (IF unfavorable = <<>> THEN <<>> ELSE <<"generate_negotiation_points">>)
           /\ api_raised' = api_raised \cup
                 (IF unfavorable # <<>> /\ outcome.kind = "raises"
                  THEN {"generate_negotiation_points"} ELSE {})
    /\ pc' = "step7"
    /\ UNCHANGED <<language_info, entities, analyzed_clauses, llm_risks, llm_given, doc_result, classification,
                   llm_summary, compliance, messages, results, classifier_vars, app_vars, segmenter_vars, audit_vars, obligation_vars>>

\* step 7: compile the results and return them (the timestamp, which the
\* clock produces, is left out)
step7_compile_results ==
    /\ pc = "step7"
    /\ results' = [kind                    |-> "results",
                   document_info           |-> doc_result,
                   language_info           |-> language_info,
                   entities                |-> entities,
                   contract_classification |-> classification,
                   llm_summary             |-> llm_summary,
                   clause_analysis         |-> analyzed_clauses,
                   risk_assessment         |-> risk_assessment,
                   unfavorable_clauses     |-> unfavorable_clauses,
                   mitigation_strategies   |-> mitigation_strategies,
                   negotiation_points      |-> negotiation_points,
                   compliance_check        |-> compliance]
    /\ messages' = Append(messages, [kind |-> "success", text |-> "Analysis complete!"])
    /\ pc' = "returned"
    /\ UNCHANGED <<language_info, entities, analyzed_clauses, llm_risks, llm_given, risk_assessment,
                   unfavorable_clauses, mitigation_strategies, doc_result, executed,
                   api_raised, classification, llm_summary, compliance,
                   negotiation_points, classifier_vars, app_vars, segmenter_vars, audit_vars, obligation_vars>>

\* an outcome for each of the four calls of step 5
Step5Outcomes ==
    {outcome \in [LLMCalls \ {"generate_negotiation_points"} ->
                     UNION {ApiOutcomes(c) : c \in LLMCalls}] :
        \A c \in DOMAIN outcome : outcome[c] \in ApiOutcomes(c)}

InitAnalysis ==
    /\ analyzed_clauses = <<>>
    /\ llm_risks = <<>>
    /\ llm_given = TRUE
    /\ pc = "step1"
    /\ risk_assessment = <<>>
    /\ unfavorable_clauses = <<>>
    /\ mitigation_strategies = <<>>
    /\ classified_text = ""
    /\ labels = <<>>
    /\ detected = <<>>
    /\ analysis_not_started
    /\ app_not_started
    /\ document_pieces = <<>>
    /\ extracted = <<>>
    /\ extracted_from = <<>>
    /\ audit_files = [f \in {} |-> <<>>]
    /\ now = 0
    /\ audit_calls = 0
    /\ audit_sessions = [session \in Sessions |-> not_calling]
    /\ doc_sents = <<>>
    /\ obligations_found = <<>>

NextAnalysis ==
    \/ \E doc \in Documents : step1_process_document(doc)
    \/ \E langdetect_returns \in BOOLEAN : step2_detect_language(langdetect_returns)
    \/ \E nlp_returns \in BOOLEAN : step3_extract_entities(nlp_returns)
    \/ step4_analyze_clauses
    \/ \E outcome \in Step5Outcomes : step5_llm_analysis(outcome)
    \/ \E outcome \in ApiOutcomes("generate_negotiation_points") :
         step6_risk_assessment(outcome)
    \/ step7_compile_results

SpecAnalysis == InitAnalysis /\ [][NextAnalysis]_vars

-----------------------------------------------------------------------------
(***************************************************************************)
(* NLPProcessor.extract_clauses: the numbered pattern, the lettered        *)
(* pattern, and the paragraph fallback.  Both patterns are compiled with   *)
(* re.MULTILINE | re.DOTALL.                                               *)
(***************************************************************************)
Digits == {"0", "1", "2", "3", "4", "5", "6", "7", "8", "9"}
UpperCase == DOMAIN UpperToLower
LowerCase == {UpperToLower[c] : c \in UpperCase}

\* the i-th character of s, "" outside of s
At(s, i) == IF i >= 1 /\ i <= Len(s) THEN SubSeq(s, i, i) ELSE ""

\* the position behind the longest run of characters of chars from i on
RECURSIVE Skip(_, _, _)
Skip(s, i, chars) == IF At(s, i) \in chars THEN Skip(s, i + 1, chars) ELSE i

\* the positions of the newlines of s
Newlines(s) == {j \in 1..Len(s) : SubSeq(s, j, j) = "\n"}

\* the position of the first newline from i on (newlines: those of s), the
\* end if there is none
LineEnd(s, newlines, i) ==
    LET stops == {j \in newlines : j >= i} \cup {Len(s) + 1}
    IN  CHOOSE j \in stops : \A j2 \in stops : j <= j2

\* (?:\d+\.?)* from i on: the position behind it
RECURSIVE number_parts(_, _)
number_parts(s, i) ==
    LET d == Skip(s, i, Digits)
    IN  IF d = i THEN i
        ELSE number_parts(s, IF At(s, d) = "." THEN d + 1 ELSE d)

\* (\d+\.(?:\d+\.?)*) or ([a-z]\)) at q: the position behind it, 0 if no match
clause_id_end(s, q, type) ==
    IF type = "numbered"
    THEN LET d == Skip(s, q, Digits)
         IN  IF d > q /\ At(s, d) = "." THEN number_parts(s, d + 1) ELSE 0
    ELSE IF At(s, q) \in LowerCase /\ At(s, q + 1) = ")" THEN q + 2 ELSE 0

\* the lookahead of the pattern at e:
\* (?=\n\d+\.|\n[A-Z]{3,}|\Z) and (?=\n[a-z]\)|\n\d+\.|\Z)
lookahead(s, e, type) ==
    \/ e = Len(s) + 1
    \/ /\ At(s, e) = "\n"
       /\ \/ LET d == Skip(s, e + 1, Digits) IN d > e + 1 /\ At(s, d) = "."
          \/ type = "numbered" /\ \A j \in (e + 1)..(e + 3) : At(s, j) \in UpperCase
          \/ type = "lettered" /\ At(s, e + 1) \in LowerCase /\ At(s, e + 2) = ")"

\* \s+([A-Z][^\n]+?) and \s+([^\n]+?) with the lookahead, behind an id that
\* ends before i: <<start, end>> of group 2, <<>> if no match.  \s+ is greedy,
\* group 2 is lazy and stays within one line.
clause_body(s, newlines, i, type) ==
    LET w == Skip(s, i, SpaceChars)
        fits(g) ==
            /\ IF type = "numbered"
               THEN At(s, g) \in UpperCase /\ At(s, g + 1) \notin {"\n", ""}
               ELSE At(s, g) \notin {"\n", ""}
            /\ lookahead(s, LineEnd(s, newlines, g), type)
        starts == {g \in (i + 1)..w : fits(g)}
    IN  IF starts = {} THEN <<>>
        ELSE LET g == CHOOSE x \in starts : \A y \in starts : x >= y
             IN  <<g, LineEnd(s, newlines, g)>>

\* the match of the pattern that starts at p, a newline or the start of a
\* line: (?:^|\n) then the id at q;
\* <<q, end of id, start of group 2, end of the match>>, <<>> if no match
match_at(s, newlines, p, type) ==
    LET q     == IF p \in newlines THEN p + 1 ELSE p
        idend == clause_id_end(s, q, type)
        span  == IF idend = 0 THEN <<>> ELSE clause_body(s, newlines, idend, type)
    IN  IF span = <<>> THEN <<>> ELSE <<q, idend, span[1], span[2]>>

\* re.finditer(pattern, text) from position i on and the loop over its matches
RECURSIVE pattern_clauses(_, _, _, _)
pattern_clauses(s, newlines, i, type) ==
    LET starts == {p \in newlines \cup {1} \cup {j + 1 : j \in newlines} :
                      p >= i /\ p <= Len(s) /\ match_at(s, newlines, p, type) # <<>>}
    IN  IF starts = {} THEN <<>>
        ELSE LET p == CHOOSE x \in starts : \A y \in starts : x <= y
                 m == match_at(s, newlines, p, type)
             IN  <<[clause_id |-> SubSeq(s, m[1], m[2] - 1),
                    text      |-> strip(SubSeq(s, m[3], m[4] - 1)),
                    type      |-> type]>>
                 \o pattern_clauses(s, newlines, m[4], type)

MinParagraphLength == 50

\* the fallback: the first k paragraphs, those longer than 50 characters kept
RECURSIVE paragraph_clauses(_, _)
paragraph_clauses(paragraphs, k) ==
    IF k = 0 THEN <<>>
    ELSE LET para == strip(paragraphs[k])
         IN  paragraph_clauses(paragraphs, k - 1)
             \o (IF para # "" /\ Len(para) > MinParagraphLength
                 THEN <<[clause_id |-> "P" \o ToString(k), text |-> para,
                         type |-> "paragraph"]>>
                 ELSE <<>>)

\* clauses = [] being the list the call before has returned
initial_clauses_kept == IF extracted = <<>> THEN <<>> ELSE extracted[Len(extracted)]

\* clauses = []
initial_clauses == <<>>

extract_clauses(s) ==
    LET newlines == Newlines(s)
        found == initial_clauses \o pattern_clauses(s, newlines, 1, "numbered")
                 \o pattern_clauses(s, newlines, 1, "lettered")
    IN  IF found # <<>> THEN found
        ELSE LET paragraphs == split(s, "\n\n")
             IN  paragraph_clauses(paragraphs, Len(paragraphs))

(***************************************************************************)
(* The segmenter on its own: a text is put together from pieces, each      *)
(* behind a newline or a blank line, and extract_clauses is called on it.  *)
(***************************************************************************)
MaxPieces == 3
MaxExtractCalls == 3

TextPieces ==
    {"", "1. Fees", "a) item",
     "either party may assign this agreement in writing", "the seller shall ship the goods within thirty days", "the buyer shall pay each invoice within thirty days"}

\* the text of the document
RECURSIVE joined(_)
joined(pieces) == IF pieces = <<>> THEN "" ELSE pieces[1] \o joined(Tail(pieces))

document_text == joined(document_pieces)

\* one more piece of the text
write_piece(piece, separator) ==
    /\ audit_files = [f \in {} |-> <<>>]
    /\ now = 0
    /\ audit_calls = 0
    /\ doc_sents = <<>>
    /\ obligations_found = <<>>
    /\ Len(document_pieces) < MaxPieces
    /\ document_pieces' = Append(document_pieces,
                                 IF document_pieces = <<>> THEN piece
                                 ELSE separator \o piece)
    /\ UNCHANGED <<extracted, extracted_from, pipeline_vars, classifier_vars, analysis_vars,
                   app_vars, audit_vars, obligation_vars>>

\* clauses = extract_clauses(text)
extract_call ==
    /\ Len(extracted) < MaxExtractCalls
    /\ extracted' = Append(extracted, extract_clauses(document_text))
    /\ extracted_from' = Append(extracted_from, document_text)
    /\ UNCHANGED <<document_pieces, pipeline_vars, classifier_vars, analysis_vars, app_vars, audit_vars, obligation_vars>>

NextSegmenter ==
    \/ \E piece \in TextPieces, separator \in {"\n", "\n\n"} : write_piece(piece, separator)
    \/ extract_call

SpecSegmenter == Init /\ [][NextSegmenter]_vars

-----------------------------------------------------------------------------
(***************************************************************************)
(* The text on its way from the uploaded file to the segmenter:            *)
(* process_uploaded_file cleans it with _clean_text, analyze_contract      *)
(* tests its length and analyze_clauses hands it to extract_clauses.       *)
(***************************************************************************)
MaxUploads == 1

\* re.sub of a run of at least `least` characters of chars by replacement,
\* from i on (hits: the positions of s holding a character of chars)
RECURSIVE sub_runs(_, _, _, _, _, _)
sub_runs(s, hits, chars, least, replacement, i) ==
    IF i > Len(s) THEN ""
    ELSE LET e == Skip(s, i, chars)
             stops == {j \in hits : j > i} \cup {Len(s) + 1}
             n == CHOOSE j \in stops : \A j2 \in stops : j <= j2
         IN  IF e > i
             THEN (IF e - i >= least THEN replacement ELSE SubSeq(s, i, e - 1))
                  \o sub_runs(s, hits, chars, least, replacement, e)
             ELSE SubSeq(s, i, n - 1) \o sub_runs(s, hits, chars, least, replacement, n)

\* re.sub(pattern, replacement, s) for a pattern [chars]{least,}
re_sub(chars, least, replacement, s) ==
    sub_runs(s, {j \in 1..Len(s) : SubSeq(s, j, j) \in chars}, chars, least, replacement, 1)

\* new.join(parts)
RECURSIVE join(_, _)
join(parts, new) ==
    IF Len(parts) = 1 THEN parts[1] ELSE parts[1] \o new \o join(Tail(parts), new)

\* s.replace(old, new)
replace(s, old, new) == join(split(s, old), new)

\* the line breaks normalised and the runs of newlines cut, then strip()
normalize_breaks(text) ==
    strip(re_sub({"\n"}, 3, "\n\n",
                 replace(replace(text, "\r\n", "\n"), "\r", "\n")))

\* _clean_text without the substitution of the whitespace runs
_clean_text_keeping_breaks(text) ==
    IF text = "" THEN "" ELSE normalize_breaks(text)

\* DocumentProcessor._clean_text (the texts hold no NUL character)
_clean_text(text) ==
    IF text = "" THEN ""
    ELSE normalize_breaks(re_sub(SpaceChars, 1, " ", text))

\* process_uploaded_file, the test of the length in analyze_contract, and
\* the extract_clauses of analyze_clauses on the text that passed
upload_call ==
    /\ Len(extracted) < MaxUploads
    /\ LET text == _clean_text(document_text)
       IN  IF text_too_short([text_length |-> Len(text)])
           THEN UNCHANGED <<extracted, extracted_from>>
           ELSE /\ extracted' = Append(extracted, extract_clauses(text))
                /\ extracted_from' = Append(extracted_from, text)
    /\ UNCHANGED <<document_pieces, pipeline_vars, classifier_vars, analysis_vars,
                   app_vars, audit_vars, obligation_vars>>

NextUpload ==
    \/ \E piece \in TextPieces, separator \in {"\n\n", " \r\n\t"} :
          write_piece(piece, separator)
    \/ upload_call

SpecUpload == Init /\ [][NextUpload]_vars

-----------------------------------------------------------------------------
(***************************************************************************)
(* ReportGenerator.create_audit_log: the log of a month is a JSON file     *)
(* holding an array of entries; a call loads it, appends one entry and     *)
(* writes it back.  A file is modelled by the JSON values it holds, a      *)
(* number by its digits.                                                   *)
(***************************************************************************)
MaxAuditCalls == 3
MaxTime == 4
\* the tick at which the next month begins
MonthTurn == 2

\* datetime.now().strftime('%Y%m') and .isoformat() at tick t
strftime_Ym(t) == IF t < MonthTurn THEN "202611" ELSE "202612"
isoformat(t) ==
    SubSeq(strftime_Ym(t), 1, 4) \o "-" \o SubSeq(strftime_Ym(t), 5, 6)
        \o (IF t < MonthTurn THEN "-30T23:59:5" ELSE "-01T00:00:0") \o ToString(t)

\* json.dump and json.load of the values an entry holds
json_dump_optional(v) ==
    IF v = None THEN [json |-> "null"] ELSE [json |-> "string", string |-> v.value]
json_load_optional(j) == IF j.json = "null" THEN None ELSE Str(j.string)
json_dump_int(v) == [json |-> "number", digits |-> ToString(v)]
RECURSIVE int(_)
int(digits) ==
    IF digits = "" THEN 0
    ELSE 10 * int(SubSeq(digits, 1, Len(digits) - 1))
         + (CHOOSE d \in 0..9 : ToString(d) = SubSeq(digits, Len(digits), Len(digits)))
json_load_int(j) == int(j.digits)
json_dump_dict(d) == [json |-> "object", members |-> {<<m[1], json_dump_optional(m[2])>> : m \in d}]
json_load_dict(j) == {<<m[1], json_load_optional(m[2])>> : m \in j.members}

json_dump_entry(entry) ==
    [timestamp        |-> json_dump_optional(entry.timestamp),
     contract_type    |-> json_dump_optional(entry.contract_type),
     risk_level       |-> json_dump_optional(entry.risk_level),
     user_info        |-> json_dump_dict(entry.user_info),
     analysis_summary |->
        [total_risks         |-> json_dump_int(entry.analysis_summary.total_risks),
         high_priority_risks |-> json_dump_int(entry.analysis_summary.high_priority_risks),
         clauses_analyzed    |-> json_dump_int(entry.analysis_summary.clauses_analyzed)]]

json_load_entry(j) ==
    [timestamp        |-> json_load_optional(j.timestamp),
     contract_type    |-> json_load_optional(j.contract_type),
     risk_level       |-> json_load_optional(j.risk_level),
     user_info        |-> json_load_dict(j.user_info),
     analysis_summary |->
        [total_risks         |-> json_load_int(j.analysis_summary.total_risks),
         high_priority_risks |-> json_load_int(j.analysis_summary.high_priority_risks),
         clauses_analyzed    |-> json_load_int(j.analysis_summary.clauses_analyzed)]]

\* the results create_audit_log is called with: of a contract with one risky
\* clause, of a contract without clauses, and a dict without the keys read
AuditResults ==
    {[document_info           |-> [text |-> ClauseTexts[1]],
      contract_classification |-> [contract_type |-> Str("Vendor Contract")],
      clause_analysis         |-> analyze_clauses(<<1>>),
      risk_assessment         |-> assess_contract_risk(analyze_clauses(<<1>>), <<>>, TRUE)],
     [document_info           |-> [text |-> ""],
      contract_classification |-> [contract_type |-> Str("General Contract")],
      clause_analysis         |-> <<>>,
      risk_assessment         |-> assess_contract_risk(<<>>, <<>>, TRUE)],
     [document_info           |-> [text |-> ClauseTexts[1]]]}

\* user_info: None (the call of app.py) or a dict, as a set of items
UserInfos == {None, [items |-> {<<"user", Str("analyst")>>}]}

\* audit_entry of lines 429-439
audit_entry(analysis_results, user_info, timestamp) ==
    LET risk_assessment_got == Get(analysis_results, "risk_assessment", [none \in {} |-> 0])
    IN  [timestamp        |-> Str(timestamp),
         contract_type    |->
             Get(Get(analysis_results, "contract_classification", [none \in {} |-> 0]),
                 "contract_type", None),
         risk_level       |->
             IF "overall_level" \in DOMAIN risk_assessment_got
             THEN Str(risk_assessment_got.overall_level) ELSE None,
         user_info        |-> IF user_info = None THEN {} ELSE user_info.items,
         analysis_summary |->
            [total_risks         |-> Get(risk_assessment_got, "total_risks_found", 0),
             high_priority_risks |-> Len(Get(risk_assessment_got, "high_priority_risks", <<>>)),
             clauses_analyzed    |-> Len(Get(analysis_results, "clause_analysis", <<>>))]]

\* logs = [] that is never filled from the file
logs_not_loaded(audit_file) == <<>>

\* logs = [], then json.load(f) if audit_file.exists()
logs_loaded(audit_file) ==
    IF audit_file \in DOMAIN audit_files
    THEN [k \in 1..Len(audit_files[audit_file]) |-> json_load_entry(audit_files[audit_file][k])]
    ELSE <<>>

\* create_audit_log(analysis_results, user_info): the clock is read for the
\* timestamp and, later, for the name of the file
audit_log_created(analysis_results, user_info, passed1, passed2) ==
    /\ audit_calls < MaxAuditCalls
    /\ now + passed1 + passed2 <= MaxTime
    /\ LET timestamp  == isoformat(now + passed1)
           entry      == audit_entry(analysis_results, user_info, timestamp)
           audit_file == "audit_log_" \o strftime_Ym(now + passed1 + passed2) \o ".json"
           logs       == Append(logs_loaded(audit_file), entry)
       IN  audit_files' = (audit_file :> [k \in 1..Len(logs) |-> json_dump_entry(logs[k])])
                              @@ audit_files
    /\ now' = now + passed1 + passed2
    /\ audit_calls' = audit_calls + 1
    /\ UNCHANGED audit_sessions

\* a call of create_audit_log on its own
create_audit_log(analysis_results, user_info, passed1, passed2) ==
    /\ audit_log_created(analysis_results, user_info, passed1, passed2)
    /\ UNCHANGED <<pipeline_vars, classifier_vars, analysis_vars, app_vars,
                   segmenter_vars, obligation_vars>>

NextAudit ==
    \E analysis_results \in AuditResults, user_info \in UserInfos, passed1, passed2 \in 0..1 :
        create_audit_log(analysis_results, user_info, passed1, passed2)

SpecAudit == Init /\ [][NextAudit]_vars

(***************************************************************************)
(* The page Analyze Contract of one session: the uploader widget holds a   *)
(* file or none, and the button runs analyze_contract on it (app.py        *)
(* 1587-1614).                                                             *)
(***************************************************************************)
\* the files a user uploads: a name and what analyze_contract makes of the
\* content (None: it returns None)
UploadedFiles ==
    {[name |-> name, analysis |-> analysis] :
        name \in {"lease.pdf", "supply.docx"}, analysis \in AuditResults \cup {None}}

\* analyze_contract(uploaded_file, modules): None, or the results, whose
\* document_info carries the name of the uploaded file
analyze_contract(uploaded_file) ==
    IF uploaded_file.analysis = None THEN None
    ELSE [uploaded_file.analysis EXCEPT
             !.document_info = [file_name |-> uploaded_file.name, text |-> @.text]]

\* the test of the results that lets a None pass
results_or_none(returned) == TRUE

\* if results:
results_given(returned) == returned # None

\* the user puts a file into the uploader, or takes it out
file_uploader(file) ==
    /\ streamlit' = [streamlit EXCEPT !.uploaded_file = file]
    /\ UNCHANGED <<environment, app, pipeline_vars, classifier_vars, analysis_vars,
                   segmenter_vars, audit_vars, obligation_vars>>

\* the button Analyze Contract is pressed
analyze_button(passed1, passed2) ==
    /\ streamlit.uploaded_file # None
    /\ LET returned == analyze_contract(streamlit.uploaded_file)
       IN  IF results_given(returned)
           THEN /\ streamlit' = [streamlit EXCEPT !.session_state =
                                    [analysis_results   |-> returned,
                                     uploaded_file_name |-> Str(streamlit.uploaded_file.name)]]
                /\ audit_log_created(returned, None, passed1, passed2)
           ELSE UNCHANGED <<streamlit, audit_vars>>
    /\ UNCHANGED <<environment, app, pipeline_vars, classifier_vars, analysis_vars,
                   segmenter_vars, obligation_vars>>

NextSession ==
    \/ \E file \in UploadedFiles \cup {None} : file_uploader(file)
    \/ \E passed1, passed2 \in 0..1 : analyze_button(passed1, passed2)

SpecSession == Init /\ [][NextSession]_vars

(***************************************************************************)
(* create_audit_log called by several sessions at once.  The processors    *)
(* are built once (st.cache_resource) and the log file is one per month,   *)
(* so that the calls share the file; no lock is taken.  A call is two      *)
(* steps: lines 427-447 (the entry, the name of the file, the log loaded   *)
(* and the entry appended in memory) and lines 449-451 (the file           *)
(* rewritten).                                                             *)
(***************************************************************************)
audit_load(session, analysis_results, user_info, passed) ==
    /\ audit_sessions[session].at = "outside"
    /\ audit_calls + Cardinality({s2 \in Sessions : audit_sessions[s2].at = "loaded"})
           < MaxAuditCalls
    /\ now + passed <= MaxTime
    /\ LET timestamp  == isoformat(now + passed)
           entry      == audit_entry(analysis_results, user_info, timestamp)
           audit_file == "audit_log_" \o strftime_Ym(now + passed) \o ".json"
       IN  audit_sessions' = [audit_sessions EXCEPT ![session] =
                                 [at         |-> "loaded",
                                  audit_file |-> audit_file,
                                  logs       |-> Append(logs_loaded(audit_file), entry)]]
    /\ now' = now + passed
    /\ UNCHANGED <<audit_files, audit_calls, pipeline_vars, classifier_vars, analysis_vars,
                   app_vars, segmenter_vars, obligation_vars>>

audit_write(session) ==
    /\ audit_sessions[session].at = "loaded"
    /\ LET logs == audit_sessions[session].logs
       IN  audit_files' = (audit_sessions[session].audit_file :>
                               [k \in 1..Len(logs) |-> json_dump_entry(logs[k])])
                              @@ audit_files
    /\ audit_sessions' = [audit_sessions EXCEPT ![session] = not_calling]
    /\ audit_calls' = audit_calls + 1
    /\ UNCHANGED <<now, pipeline_vars, classifier_vars, analysis_vars, app_vars,
                   segmenter_vars, obligation_vars>>

NextAuditSessions ==
    \/ \E session \in Sessions, analysis_results \in AuditResults, user_info \in UserInfos,
          passed \in 0..1 :
          audit_load(session, analysis_results, user_info, passed)
    \/ \E session \in Sessions : audit_write(session)

SpecAuditSessions == Init /\ [][NextAuditSessions]_vars

-----------------------------------------------------------------------------
(***************************************************************************)
(* NLPProcessor.extract_obligations: the sentences of the parsed text      *)
(* (doc.sents, found by spaCy) are sorted into three lists.                *)
(***************************************************************************)
obligation_keywords == {"shall", "must", "will", "agrees to", "required to", "obligated to"}
rights_keywords == {"may", "entitled to", "has the right", "permitted to", "can"}
prohibition_keywords == {"shall not", "must not", "prohibited", "forbidden", "may not"}

\* any(keyword in sent_lower for keyword in keywords)
any_keyword(sent_lower, keywords) == \E keyword \in keywords : Contains(sent_lower, keyword)

\* the lists a sentence would be appended to by three independent tests
lists_of_every_match(sent_lower) ==
    {name \in {"prohibitions", "obligations", "rights"} :
        any_keyword(sent_lower, CASE name = "prohibitions" -> prohibition_keywords
                                  [] name = "obligations"  -> obligation_keywords
                                  [] name = "rights"       -> rights_keywords)}

\* the lists a sentence is appended to: the if / elif / elif of lines 203-211
lists_of_sentence(sent_lower) ==
    IF any_keyword(sent_lower, prohibition_keywords) THEN {"prohibitions"}
    ELSE IF any_keyword(sent_lower, obligation_keywords) THEN {"obligations"}
    ELSE IF any_keyword(sent_lower, rights_keywords) THEN {"rights"}
    ELSE {}

\* extract_obligations on a text with these sentences
extract_obligations(sents) ==
    LET sent_texts == [k \in 1..Len(sents) |-> strip(sents[k])]
        listed(name) ==
            SelectSeq(sent_texts, LAMBDA sent_text : name \in lists_of_sentence(lower(sent_text)))
    IN  [obligations  |-> listed("obligations"),
         rights       |-> listed("rights"),
         prohibitions |-> listed("prohibitions")]

MaxSentences == 3
MaxObligationCalls == 1

\* the sentences a clause is put together from
Sentences ==
    {"The Vendor SHALL NOT assign this agreement. ",
     "The Vendor shall deliver the goods and may invoice them.",
     "The Buyer may inspect the goods",
     "Either party cancels by written notice.",
     "The Buyer may not resell and must pay. ",
     "Title passes on delivery."}

\* one more sentence of the clause, before any call
write_sentence(sentence) ==
    /\ obligations_found = <<>>
    /\ Len(doc_sents) < MaxSentences
    /\ doc_sents' = Append(doc_sents, sentence)
    /\ UNCHANGED <<obligations_found, pipeline_vars, classifier_vars, analysis_vars, app_vars,
                   segmenter_vars, audit_vars>>

\* extract_obligations(text)
obligations_call ==
    /\ Len(obligations_found) < MaxObligationCalls
    /\ obligations_found' = Append(obligations_found, extract_obligations(doc_sents))
    /\ UNCHANGED <<doc_sents, pipeline_vars, classifier_vars, analysis_vars, app_vars,
                   segmenter_vars, audit_vars>>

NextObligations ==
    \/ \E sentence \in Sentences : write_sentence(sentence)
    \/ obligations_call

SpecObligations == Init /\ [][NextObligations]_vars

-----------------------------------------------------------------------------
(***************************************************************************)
(* The script app.py: each run executes processors = load_processors()     *)
(* (line 51) before anything else; load_processors constructs the          *)
(* processors in the order of its dict.                                    *)
(***************************************************************************)
MaxScriptRuns == 3

\* os.getenv(name, default)
getenv(name, default) ==
    IF environment[name] = None THEN default ELSE environment[name].value

\* config.LLM_PROVIDER and config.OPENAI_API_KEY
LLM_PROVIDER == getenv("LLM_PROVIDER", "anthropic")
OPENAI_API_KEY == getenv("OPENAI_API_KEY", "")

\* the environments the script may be started in
Environments ==
    [LLM_PROVIDER   : {None, Str("openai"), Str("anthropic")},
     OPENAI_API_KEY : {None, Str("your_openai_api_key_here"), Str("sk-test")}]

\* NLPProcessor.__init__(self) called with that many arguments
NLPProcessor_init(argument_count) == IF argument_count = 0 THEN None ELSE Str("TypeError")

\* ContractAnalyzer.__init__: the exception it raises, None if it returns
ContractAnalyzer_init ==
    IF LLM_PROVIDER = "openai"
    THEN IF OPENAI_API_KEY = "" \/ OPENAI_API_KEY = "your_openai_api_key_here"
         THEN Str("ValueError") ELSE None
    ELSE Str("ValueError")

\* the entries of the dict load_processors returns, in order, each with the
\* exception its constructor call raises (None if it returns);
\* ClauseAnalyzer.__init__(nlp) itself calls NLPProcessor(nlp)
processor_constructors ==
    << <<"doc", None>>, <<"nlp", NLPProcessor_init(1)>>, <<"entity", None>>,
       <<"clause", NLPProcessor_init(1)>>, <<"contract", ContractAnalyzer_init>>,
       <<"risk", None>>, <<"lang", None>>, <<"template", None>>, <<"report", None>> >>

\* the script is run (started, or run again after an interaction)
run_script ==
    /\ app.pc \in {"idle", "raised"}
    /\ app.runs < MaxScriptRuns
    /\ app' = [pc |-> "load_processors", runs |-> app.runs + 1, constructed |-> 0,
               exception |-> None]
    /\ IF app.pc = "idle" THEN environment' \in Environments ELSE UNCHANGED environment
    /\ UNCHANGED <<streamlit, pipeline_vars, classifier_vars, analysis_vars, segmenter_vars, audit_vars, obligation_vars>>

\* load_processors: nlp = load_spacy()
load_spacy ==
    /\ app.pc = "load_processors"
    /\ app' = [app EXCEPT !.pc = "constructing"]
    /\ UNCHANGED <<streamlit, environment, pipeline_vars, classifier_vars, analysis_vars, segmenter_vars, audit_vars, obligation_vars>>

\* load_processors: the next constructor call of the dict; an exception ends
\* the run of the script
construct_processor ==
    /\ app.pc = "constructing"
    /\ LET raised == processor_constructors[app.constructed + 1][2]
       IN  app' = IF raised # None
                  THEN [app EXCEPT !.pc = "raised", !.exception = raised]
                  ELSE [app EXCEPT !.constructed = @ + 1,
                                   !.pc = IF app.constructed + 1 = Len(processor_constructors)
                                          THEN "ready" ELSE "constructing"]
    /\ UNCHANGED <<streamlit, environment, pipeline_vars, classifier_vars, analysis_vars, segmenter_vars, audit_vars, obligation_vars>>

NextApp ==
    \/ run_script
    \/ load_spacy
    \/ construct_processor

\* a run of the script, once started, goes on until it ends
SpecApp ==
    /\ Init
    /\ [][NextApp]_vars
    /\ WF_vars(load_spacy)
    /\ WF_vars(construct_processor)

-----------------------------------------------------------------------------
(***************************************************************************)
(* The classifier on its own: _classify_clause_type called, possibly more  *)
(* than once, on a clause text made of a few words.                        *)
(***************************************************************************)
MaxWords == 3
MaxCalls == 2

\* the words clause texts are made of: keywords of several types in either
\* case, keywords that contain another keyword, and a word without any
ClauseWords == {"Payment", "FEE", "termination", "Terminate", "confidentiality",
                "agreement", "warranty", "liable"}

\* the caller writes one more word of the clause
write_word(w) ==
    /\ labels = <<>>
    /\ word_count(classified_text) < MaxWords
    /\ classified_text' = IF classified_text = "" THEN w ELSE classified_text \o " " \o w
    /\ UNCHANGED <<labels, detected, pipeline_vars, analysis_vars, app_vars, segmenter_vars, audit_vars, obligation_vars>>

\* one call of _classify_clause_type on the text
classify_call ==
    /\ Len(labels) < MaxCalls
    /\ labels' = Append(labels, _classify_clause_type(classified_text))
    /\ UNCHANGED <<classified_text, detected, pipeline_vars, analysis_vars, app_vars, segmenter_vars, audit_vars, obligation_vars>>

NextClassifier ==
    \/ \E w \in ClauseWords : write_word(w)
    \/ classify_call

SpecClassifier == Init /\ [][NextClassifier]_vars

-----------------------------------------------------------------------------
(***************************************************************************)
(* The risk detector on its own: _detect_clause_risks called on a clause   *)
(* text made of a few phrases, with the type the classifier gives the      *)
(* text or with another type.                                              *)
(***************************************************************************)
MaxPhrases == 2
MaxDetectCalls == 1

ClausePhrases ==
    {"the company may terminate at any time",
     "either party may terminate AT WILL",
     "termination without cause",
     "fees are payable in Advance",
     "an upfront payment",
     "interest on late payment",
     "the term of the agreement"}

\* the caller writes one more phrase of the clause
write_phrase(phrase) ==
    /\ detected = <<>>
    /\ (IF classified_text = "" THEN 0 ELSE Len(split(classified_text, "; "))) < MaxPhrases
    /\ classified_text' =
          IF classified_text = "" THEN phrase ELSE classified_text \o "; " \o phrase
    /\ UNCHANGED <<labels, detected, pipeline_vars, analysis_vars, app_vars, segmenter_vars,
                   audit_vars, obligation_vars>>

\* risks = self._detect_clause_risks(clause_text, clause_type)
detect_call(clause_type) ==
    /\ Len(detected) < MaxDetectCalls
    /\ detected' = Append(detected,
                          [clause_type |-> clause_type,
                           risks       |-> _detect_clause_risks(classified_text, clause_type)])
    /\ UNCHANGED <<classified_text, labels, pipeline_vars, analysis_vars, app_vars,
                   segmenter_vars, audit_vars, obligation_vars>>

NextDetector ==
    \/ \E phrase \in ClausePhrases : write_phrase(phrase)
    \/ \E clause_type \in {_classify_clause_type(classified_text), "Termination",
                           "Payment Terms", "General Provisions"} : detect_call(clause_type)

SpecDetector == Init /\ [][NextDetector]_vars

-----------------------------------------------------------------------------
(***************************************************************************)
(* Properties.  All are about a finished analysis (pc = "done"), or about  *)
(* the clauses analysed so far.                                            *)
(***************************************************************************)
Done == pc = "done"

RangeOf(seq) == {seq[k] : k \in 1..Len(seq)}

HighRisksOf(clause) == SelectSeq(clause.risks, LAMBDA r : r.severity = "HIGH")

\* C1: whatever the analysed clauses and the LLM risk list (empty and absent
\* included), the returned overall_score lies between 0 and 100.
C1_ScoreBounds ==
    Done => /\ risk_assessment.overall_score >= 0
            /\ risk_assessment.overall_score <= 10000

\* a contract whose average exceeds the cap, with an LLM risk on top
C1_Witness ==
    /\ Done
    /\ Len(analyzed_clauses) >= 1
    /\ llm_risks # <<>>
    /\ risk_assessment.overall_score = 10000

\* C2: the returned overall_level agrees with the returned (rounded)
\* overall_score: HIGH iff score >= 70, MEDIUM iff 40 <= score < 70, LOW iff
\* score < 40.
C2_LevelMatchesReturnedScore ==
    Done => /\ risk_assessment.overall_level = "HIGH"
                 <=> risk_assessment.overall_score >= 7000
            /\ risk_assessment.overall_level = "MEDIUM"
                 <=> (risk_assessment.overall_score >= 4000
                      /\ risk_assessment.overall_score < 7000)
            /\ risk_assessment.overall_level = "LOW"
                 <=> risk_assessment.overall_score < 4000

\* an assessment returned with the score 70.00 and the level MEDIUM
C2_Witness ==
    /\ Done
    /\ risk_assessment.overall_score = 7000
    /\ risk_assessment.overall_level = "MEDIUM"

\* the inputs changed by one more HIGH finding
InsertAt(seq, k, x) == SubSeq(seq, 1, k) \o <<x>> \o SubSeq(seq, k + 1, Len(seq))

HighFinding(category) ==
    [risk_type |-> "Added Risk", severity |-> "HIGH", category |-> category,
     description |-> "one more finding"]

\* an LLM risk that _categorize_llm_risk files under the category
HighLLMRisk(category) ==
    [type |-> CASE category = "penalty_clauses"        -> "Penalty"
                [] category = "indemnity"              -> "Indemnity"
                [] category = "unilateral_termination" -> "Termination"
                [] category = "arbitration"            -> "Arbitration"
                [] category = "auto_renewal"           -> "Renewal"
                [] category = "non_compete"            -> "Non-compete"
                [] category = "payment_terms"          -> "Payment"
                [] category = "liability"              -> "Liability"
                [] category = "confidentiality"        -> "Confidentiality"
                [] OTHER                               -> "General Risk",
     severity |-> "HIGH", description |-> "one more finding"]

\* C3: adding one more HIGH finding, of any category, to any clause (at any
\* place of its finding list) or to the LLM risk list, the number of clauses
\* unchanged, never decreases overall_score (contracts of up to
\* MaxClausesCompared clauses).
C3_ScoreMonotone ==
    (Done /\ Len(analyzed_clauses) <= MaxClausesCompared) =>
      \A c \in Categories :
        /\ \A i \in 1..Len(analyzed_clauses) :
             \A k \in 0..Len(analyzed_clauses[i].risks) :
               assess_contract_risk(
                   [analyzed_clauses EXCEPT ![i].risks = InsertAt(@, k, HighFinding(c))],
                   llm_risks, llm_given).overall_score
                 >= risk_assessment.overall_score
        /\ \A k \in 0..Len(llm_risks) :
             /\ _categorize_llm_risk(HighLLMRisk(c).type) = c
             /\ assess_contract_risk(analyzed_clauses,
                                     InsertAt(llm_risks, k, HighLLMRisk(c)),
                                     TRUE).overall_score
                  >= risk_assessment.overall_score

\* an assessment below the cap, of clauses with findings and an LLM risk
C3_Witness ==
    /\ Done
    /\ Len(analyzed_clauses) >= 2
    /\ \E i \in 1..Len(analyzed_clauses) : analyzed_clauses[i].risks # <<>>
    /\ llm_risks # <<>>
    /\ risk_assessment.overall_score > 0
    /\ risk_assessment.overall_score < 10000

\* T of claim C4, in tenths: the sum over all findings of
\* severity_score * category weight, computed in integers
WeightTenths(category) ==
    CASE category = "penalty_clauses"        -> 12
      [] category = "indemnity"              -> 15
      [] category = "unilateral_termination" -> 18
      [] category = "arbitration"            -> 10
      [] category = "auto_renewal"           -> 13
      [] category = "non_compete"            -> 14
      [] category = "payment_terms"          -> 12
      [] category = "liability"              -> 16
      [] category = "confidentiality"        -> 8
      [] OTHER                               -> 10

SeverityPoints(severity) ==
    CASE severity = "LOW" -> 1 [] severity = "HIGH" -> 3 [] OTHER -> 2

RECURSIVE SumTenths(_)
SumTenths(findings) ==
    IF findings = <<>> THEN 0
    ELSE SumTenths(Tail(findings))
         + SeverityPoints(Head(findings).severity) * WeightTenths(Head(findings).category)

RECURSIVE ClauseTenths(_)
ClauseTenths(clauses) ==
    IF clauses = <<>> THEN 0
    ELSE SumTenths(Head(clauses).risks) + ClauseTenths(Tail(clauses))

TotalTenths ==
    ClauseTenths(analyzed_clauses)
      + (IF llm_given
         THEN SumTenths([k \in 1..Len(llm_risks) |->
                           [severity |-> Get(llm_risks[k], "severity", "MEDIUM"),
                            category |-> _categorize_llm_risk(llm_risks[k].type)]])
         ELSE 0)

\* min(100, 20 * T / clause_count), in hundredths, times clause_count
ExactScoreTimesCount ==
    Min(10000 * Len(analyzed_clauses), 200 * TotalTenths)

\* C4 as stated: with at least one clause, overall_score equals
\* min(100, 20 * T / clause_count).
C4_ScoreEqualsFormula ==
    (Done /\ Len(analyzed_clauses) > 0) =>
        risk_assessment.overall_score * Len(analyzed_clauses) = ExactScoreTimesCount

\* C4 as amended: with at least one clause, overall_score equals
\* min(100, 20 * T / clause_count) rounded to two decimals (it is a hundredth
\* nearest to that value).
C4_ScoreIsRoundedFormula ==
    (Done /\ Len(analyzed_clauses) > 0) =>
        LET d == risk_assessment.overall_score * Len(analyzed_clauses) - ExactScoreTimesCount
        IN  2 * d <= Len(analyzed_clauses) /\ -2 * d <= Len(analyzed_clauses)

\* the example of C4: three clauses, one with a MEDIUM auto_renewal and a
\* MEDIUM payment_terms finding, the others without findings; T = 5.0
C4_Witness ==
    /\ Done
    /\ Len(analyzed_clauses) = 3
    /\ llm_risks = <<>>
    /\ \E i \in 1..3 :
         /\ [k \in 1..Len(analyzed_clauses[i].risks) |->
               <<analyzed_clauses[i].risks[k].severity, analyzed_clauses[i].risks[k].category>>]
              = << <<"MEDIUM", "auto_renewal">>, <<"MEDIUM", "payment_terms">> >>
         /\ \A j \in 1..3 : j # i => analyzed_clauses[j].risks = <<>>
    /\ TotalTenths = 50
    /\ risk_assessment.overall_score = 3333
    /\ risk_assessment.overall_level = "LOW"

\* C5: with no analysed clause the assessment is score 0 and level LOW,
\* whatever the LLM risk list holds; with no LLM risk either,
\* total_risks_found is 0.
C5_EmptyContract ==
    (Done /\ analyzed_clauses = <<>>) =>
        /\ risk_assessment.overall_score = 0
        /\ risk_assessment.overall_level = "LOW"
        /\ (llm_risks = <<>> => risk_assessment.total_risks_found = 0)

\* no clause, and an LLM risk that was scored
C5_Witness ==
    /\ Done
    /\ analyzed_clauses = <<>>
    /\ llm_risks # <<>>
    /\ risk_assessment.total_risks_found = 1

\* the entries of unfavorable_clauses that belong to the i-th clause
EntriesOf(i) ==
    SelectSeq(unfavorable_clauses, LAMBDA e : e.clause_id = analyzed_clauses[i].clause_id)

\* C6: a clause with a HIGH finding and more than 2 ambiguities is reported
\* with severity HIGH and the risk types of its HIGH findings as reasons,
\* never with "Multiple Ambiguous Terms".
C6_UnfavorablePrecedence ==
    Done =>
      \A i \in 1..Len(analyzed_clauses) :
        (HighRisksOf(analyzed_clauses[i]) # <<>> /\ Len(analyzed_clauses[i].ambiguities) > 2)
        => /\ EntriesOf(i) # <<>>
           /\ \A e \in RangeOf(EntriesOf(i)) :
                /\ e.severity = "HIGH"
                /\ e.reasons = [k \in 1..Len(HighRisksOf(analyzed_clauses[i])) |->
                                  HighRisksOf(analyzed_clauses[i])[k].risk_type]
                /\ "Multiple Ambiguous Terms" \notin RangeOf(e.reasons)

\* a reported clause with a HIGH finding and more than 2 ambiguities
C6_Witness ==
    /\ Done
    /\ \E i \in 1..Len(analyzed_clauses) :
         /\ HighRisksOf(analyzed_clauses[i]) # <<>>
         /\ Len(analyzed_clauses[i].ambiguities) > 2
         /\ EntriesOf(i) # <<>>

Qualifies(clause) == HighRisksOf(clause) # <<>> \/ Len(clause.ambiguities) > 2

\* C7: unfavorable_clauses holds one entry for each clause with a HIGH
\* finding or more than 2 ambiguities, none for any other clause, in the
\* order of the clauses.
C7_UnfavorableSelection ==
    Done =>
      LET chosen == SelectSeq(analyzed_clauses, Qualifies)
      IN  /\ Len(unfavorable_clauses) = Len(chosen)
          /\ \A k \in 1..Len(chosen) :
               /\ unfavorable_clauses[k].clause_id = chosen[k].clause_id
               /\ unfavorable_clauses[k].clause_type = chosen[k].clause_type

\* a contract in which a clause with 2 ambiguities and MEDIUM findings only
\* stands between two reported clauses
C7_Witness ==
    /\ Done
    /\ Len(analyzed_clauses) = 3
    /\ Qualifies(analyzed_clauses[1])
    /\ ~Qualifies(analyzed_clauses[2])
    /\ analyzed_clauses[2].risks # <<>>
    /\ Len(analyzed_clauses[2].ambiguities) = 2
    /\ Qualifies(analyzed_clauses[3])
    /\ HighRisksOf(analyzed_clauses[3]) = <<>>
    /\ Len(unfavorable_clauses) = 2

\* C8: the text of an entry is the first 200 characters of the clause,
\* followed by an ellipsis only if the clause is longer than 200 characters.
C8_PreviewEllipsisOnlyIfTruncated ==
    Done =>
      \A i \in 1..Len(analyzed_clauses) :
        \A e \in RangeOf(EntriesOf(i)) :
          e.text = IF Len(analyzed_clauses[i].original_text) > PreviewLen
                   THEN SubSeq(analyzed_clauses[i].original_text, 1, PreviewLen) \o "..."
                   ELSE analyzed_clauses[i].original_text

\* a reported clause of at most 200 characters, shown with the ellipsis
C8_Witness ==
    /\ Done
    /\ \E i \in 1..Len(analyzed_clauses) :
         /\ Len(analyzed_clauses[i].original_text) <= PreviewLen
         /\ EntriesOf(i) # <<>>
         /\ EntriesOf(i)[1].text = analyzed_clauses[i].original_text \o "..."

\* C9: the clause "The Company may terminate this agreement at any time at
\* its sole discretion.", of type Termination, has a finding Unilateral
\* Termination, HIGH, unilateral_termination.
C9_UnilateralTerminationScenario ==
    \A i \in 1..Len(analyzed_clauses) :
      (/\ analyzed_clauses[i].original_text =
            "The Company may terminate this agreement at any time at its sole discretion."
       /\ analyzed_clauses[i].clause_type = "Termination")
      => \E r \in RangeOf(analyzed_clauses[i].risks) :
           /\ r.risk_type = "Unilateral Termination"
           /\ r.severity = "HIGH"
           /\ r.category = "unilateral_termination"

\* the clause of C9, classified Termination, analysed without any finding
C9_Witness ==
    \E i \in 1..Len(analyzed_clauses) :
      /\ analyzed_clauses[i].original_text = ClauseTexts[1]
      /\ analyzed_clauses[i].clause_type = "Termination"
      /\ analyzed_clauses[i].risks = <<>>

\* C10: the clause "Vendor's liability shall be unlimited for any damages
\* arising from this agreement." has exactly one finding: Unlimited
\* Liability, HIGH, liability.
C10_UnlimitedLiabilityScenario ==
    \A i \in 1..Len(analyzed_clauses) :
      analyzed_clauses[i].original_text =
          "Vendor's liability shall be unlimited for any damages arising from this agreement."
      => /\ Len(analyzed_clauses[i].risks) = 1
         /\ analyzed_clauses[i].risks[1].risk_type = "Unlimited Liability"
         /\ analyzed_clauses[i].risks[1].severity = "HIGH"
         /\ analyzed_clauses[i].risks[1].category = "liability"

\* the clause of C10, analysed without any finding
C10_Witness ==
    \E i \in 1..Len(analyzed_clauses) :
      /\ analyzed_clauses[i].original_text = ClauseTexts[2]
      /\ analyzed_clauses[i].clause_type = "Liability"
      /\ analyzed_clauses[i].risks = <<>>

\* the declared clause types, in declaration order, and the fallback label
DeclaredTypes ==
    <<"Payment Terms", "Termination", "Indemnity", "Confidentiality",
      "Intellectual Property", "Liability", "Dispute Resolution", "Force Majeure",
      "Warranties", "Non-compete", "Auto-Renewal", "Lock-in Period">>

KeywordCounts(text) ==
    LET text_lower == lower(text)
    IN  [k \in 1..Len(DeclaredTypes) |->
           Cardinality({kw \in clause_keywords[k].keywords : Contains(text_lower, kw)})]

\* C12: the label returned is the type with the largest number of keywords
\* occurring in the clause as case-insensitive substrings; among several
\* types with that largest non-zero number, the one declared first; with no
\* keyword at all, "General Provisions".
C12_ClassifierLargestCountFirstDeclared ==
    labels # <<>> =>
      LET count == KeywordCounts(classified_text)
      IN  \A c \in 1..Len(labels) :
            IF \A k \in 1..Len(DeclaredTypes) : count[k] = 0
            THEN labels[c] = "General Provisions"
            ELSE \E k \in 1..Len(DeclaredTypes) :
                   /\ labels[c] = DeclaredTypes[k]
                   /\ clause_keywords[k].type = DeclaredTypes[k]
                   /\ count[k] > 0
                   /\ \A j \in 1..Len(DeclaredTypes) :
                        /\ count[j] <= count[k]
                        /\ j < k => count[j] < count[k]

\* two types with two keywords each and an earlier declared type with one:
\* the first declared of the two wins, in upper case as well
C12_Witness ==
    /\ classified_text = "warranty confidentiality FEE"
    /\ labels # <<>>
    /\ labels[1] = "Confidentiality"
    /\ KeywordCounts(classified_text)[1] = 1
    /\ KeywordCounts(classified_text)[4] = 2
    /\ KeywordCounts(classified_text)[9] = 2

\* the LLM calls of step 5
Step5Calls == {"classify_contract_type", "generate_summary", "identify_risks",
               "check_compliance"}

PlaceholderSummary ==
    Str("AI-powered summary unavailable. Please check your API key configuration.")

\* C13: when the API call of some LLM call of step 5 raised, analyze_contract
\* still returns results, and they carry the defaults: contract type
\* "General Contract", an empty LLM risk list handed to the risk assessment,
\* and the placeholder summary.
C13_LLMFailureDefaults ==
    (pc = "returned" /\ api_raised \cap Step5Calls # {}) =>
        /\ results.kind = "results"
        /\ results.contract_classification.contract_type = "General Contract"
        /\ llm_risks = <<>>
        /\ results.llm_summary = PlaceholderSummary

\* every API call of step 5 raised: the results hold the error text of the
\* call as summary
C13_Witness ==
    /\ pc = "returned"
    /\ Step5Calls \subseteq api_raised
    /\ results.kind = "results"
    /\ results.contract_classification.contract_type = "General Contract"
    /\ llm_risks = <<>>
    /\ results.llm_summary = Str("Error calling LLM: Connection error.")
    /\ \A k \in 1..Len(messages) : messages[k].kind # "warning"

\* the LLM collaborator is not configured: ContractAnalyzer() raises
LLMNotConfigured == ContractAnalyzer_init # None

\* C14: when the LLM collaborator is not configured, the app, once run,
\* eventually returns the results of an analysis.
C14_UnconfiguredLLMStillAnalyses ==
    (app.pc # "idle" /\ LLMNotConfigured) ~> (results.kind = "results")

\* the script has ended in load_processors with an exception, no analysis
\* having been started
C14_Witness ==
    /\ LLMNotConfigured
    /\ environment.LLM_PROVIDER = None
    /\ app.pc = "raised"
    /\ app.exception = Str("TypeError")
    /\ results = NotReturned
    /\ executed = <<>>

\* document processing reported success and a text of at least 100 characters
InputAccepted == doc_result.success /\ doc_result.text_length >= 100

\* C15: a step after step 1 is executed only if document processing reported
\* success and the text has at least 100 characters; otherwise an error is
\* shown, analyze_contract returns None and no later step is executed.
C15_InputGating ==
    pc # "step1" =>
        /\ (pc # "returned" \/ Len(executed) > 1) => InputAccepted
        /\ ~InputAccepted =>
              /\ pc = "returned"
              /\ results = None
              /\ executed = <<"process_uploaded_file">>
              /\ Len(messages) = 1
              /\ messages[1].kind = "error"

\* a text of 99 characters was refused after step 1
C15_Witness ==
    /\ pc = "returned"
    /\ doc_result # None
    /\ doc_result.success
    /\ doc_result.text_length = 99
    /\ results = None
    /\ executed = <<"process_uploaded_file">>
    /\ messages[1].kind = "error"

\* C16: no two clauses returned by extract_clauses have the same clause_id.
C16_ClauseIdsUnique ==
    \A k \in 1..Len(extracted) :
        \A i, j \in 1..Len(extracted[k]) :
            i # j => extracted[k][i].clause_id # extracted[k][j].clause_id

\* the letter a) repeated behind a numbered section: two clauses with the id a)
C16_Witness ==
    /\ extracted # <<>>
    /\ extracted_from[1] = "a) item\n1. Fees\na) item"
    /\ Len(extracted[1]) = 2
    /\ extracted[1][1].clause_id = "a)"
    /\ extracted[1][2].clause_id = "a)"

\* neither pattern finds a clause in s
NoStructuredClause(s) ==
    /\ pattern_clauses(s, Newlines(s), 1, "numbered") = <<>>
    /\ pattern_clauses(s, Newlines(s), 1, "lettered") = <<>>

\* the paragraphs of s between blank lines, trimmed
TrimmedParagraphs(s) ==
    LET paragraphs == split(s, "\n\n")
    IN  {strip(paragraphs[k]) : k \in 1..Len(paragraphs)}

\* C17: when neither pattern finds a clause, extract_clauses returns a
\* non-empty list iff some paragraph between blank lines has a trimmed length
\* of at least 50 characters (one of exactly 50 characters is kept).
C17_ParagraphFallbackFromFifty ==
    \A k \in 1..Len(extracted) :
        NoStructuredClause(extracted_from[k]) =>
            (extracted[k] # <<>>
                <=> \E para \in TrimmedParagraphs(extracted_from[k]) : Len(para) >= 50)

\* a text that is one paragraph of exactly 50 characters: nothing is returned
C17_Witness ==
    /\ extracted = <<<<>>>>
    /\ Len(extracted_from[1]) = 50
    /\ NoStructuredClause(extracted_from[1])

\* the categories the claim names as having a strategy template
TemplatedCategories ==
    {"unilateral_termination", "indemnity", "liability", "penalty_clauses",
     "auto_renewal", "non_compete"}

\* the place of the category with that label in the order of risk_breakdown
CategoryPlace(label) ==
    CHOOSE k \in 1..Len(CategoryOrder) : category_label(CategoryOrder[k]) = label

\* C18: generate_risk_mitigation_strategies returns exactly one strategy for
\* each category that has a finding and a template; its priority is HIGH iff
\* a finding of the category has severity HIGH, otherwise MEDIUM; HIGH
\* strategies precede MEDIUM ones, and within a priority the strategies keep
\* the order of the categories in risk_breakdown.
C18_MitigationStrategies ==
    Done =>
        LET breakdown == risk_assessment.risk_breakdown
            wanted    == {c \in TemplatedCategories : breakdown[c] # <<>>}
            ms        == mitigation_strategies
        IN  /\ Len(ms) = Cardinality(wanted)
            /\ {ms[i].risk_category : i \in 1..Len(ms)} = {category_label(c) : c \in wanted}
            /\ \A i \in 1..Len(ms) :
                  LET found == breakdown[CategoryOrder[CategoryPlace(ms[i].risk_category)]]
                  IN  /\ ms[i].priority \in {"HIGH", "MEDIUM"}
                      /\ ms[i].priority = "HIGH"
                            <=> \E j \in 1..Len(found) : Get(found[j], "severity", "") = "HIGH"
            /\ \A i, j \in 1..Len(ms) :
                  i < j =>
                      /\ ms[i].priority = "MEDIUM" => ms[j].priority = "MEDIUM"
                      /\ ms[i].priority = ms[j].priority =>
                            CategoryPlace(ms[i].risk_category) < CategoryPlace(ms[j].risk_category)

\* a HIGH strategy was moved in front of a MEDIUM strategy whose category
\* comes first in risk_breakdown, and a category without a template has a
\* finding
C18_Witness ==
    /\ Done
    /\ \E i, j \in 1..Len(mitigation_strategies) :
          /\ i < j
          /\ mitigation_strategies[i].priority = "HIGH"
          /\ mitigation_strategies[j].priority = "MEDIUM"
          /\ CategoryPlace(mitigation_strategies[i].risk_category)
                > CategoryPlace(mitigation_strategies[j].risk_category)
    /\ \E c \in Categories \ TemplatedCategories : risk_assessment.risk_breakdown[c] # <<>>

\* the log held by a file, empty if the file does not exist
LogOf(files, audit_file) == IF audit_file \in DOMAIN files THEN files[audit_file] ELSE <<>>

\* the texts of the contracts and of their clauses
ContractTexts ==
    UNION {{r.document_info.text} \cup
           {Get(r, "clause_analysis", <<>>)[k].original_text
              : k \in 1..Len(Get(r, "clause_analysis", <<>>))} : r \in AuditResults} \ {""}

\* a written entry holds the timestamp, the contract type, the risk level,
\* the user info and the three counts, and no text of a contract
MetadataOnly(written) ==
    /\ DOMAIN written
          = {"timestamp", "contract_type", "risk_level", "user_info", "analysis_summary"}
    /\ DOMAIN written.analysis_summary
          = {"total_risks", "high_priority_risks", "clauses_analyzed"}
    /\ \A c \in DOMAIN written.analysis_summary : written.analysis_summary[c].json = "number"
    /\ \A field \in {"timestamp", "contract_type", "risk_level"} :
          \/ written[field].json = "null"
          \/ written[field].json = "string" /\ written[field].string \notin ContractTexts
    /\ written.user_info.json = "object"

\* C19: each call of create_audit_log leaves the entries already in the
\* month's log unchanged and in order and adds exactly one entry at its end,
\* which holds metadata only; every other log is left as it is, and nothing
\* but a call changes a log.
C19_AuditLogAppendOnly ==
    [][/\ audit_calls' = audit_calls => audit_files' = audit_files
       /\ audit_calls' # audit_calls =>
             \E audit_file \in DOMAIN audit_files' :
                LET before == LogOf(audit_files, audit_file)
                    after  == audit_files'[audit_file]
                IN  /\ Len(after) = Len(before) + 1
                    /\ SubSeq(after, 1, Len(before)) = before
                    /\ MetadataOnly(after[Len(after)])
                    /\ \A other \in DOMAIN audit_files' \ {audit_file} :
                          /\ other \in DOMAIN audit_files
                          /\ audit_files'[other] = audit_files[other]
                    /\ DOMAIN audit_files \subseteq DOMAIN audit_files']_vars

\* the log of a month holds two entries, the second of results without the
\* keys read, and the log of the next month exists as well
C19_Witness ==
    /\ audit_calls = 3
    /\ DOMAIN audit_files = {"audit_log_202611.json", "audit_log_202612.json"}
    /\ Len(audit_files["audit_log_202611.json"]) = 2
    /\ audit_files["audit_log_202611.json"][1].contract_type.json = "string"
    /\ audit_files["audit_log_202611.json"][2].contract_type.json = "null"
    /\ audit_files["audit_log_202611.json"][2].analysis_summary.total_risks.digits = "0"

\* how often x occurs in the sequence q
Occurrences(q, x) == Cardinality({k \in 1..Len(q) : q[k] = x})

\* C20: extract_obligations puts every sentence in at most one list:
\* prohibitions if it holds a prohibition keyword, else obligations if it
\* holds an obligation keyword, else rights if it holds a rights keyword,
\* else none; a sentence with "shall not" is no obligation, one with "shall"
\* and "may" is no right.
C20_ObligationPrecedence ==
    \A c \in 1..Len(obligations_found) :
        LET found == obligations_found[c]
            sent_texts == {strip(doc_sents[k]) : k \in 1..Len(doc_sents)}
            times(t) == Cardinality({k \in 1..Len(doc_sents) : strip(doc_sents[k]) = t})
            holds(t, keywords) == \E keyword \in keywords : Contains(lower(t), keyword)
            expected(t) ==
                IF holds(t, {"shall not", "must not", "prohibited", "forbidden", "may not"})
                THEN "prohibitions"
                ELSE IF holds(t, {"shall", "must", "will", "agrees to", "required to",
                                  "obligated to"})
                THEN "obligations"
                ELSE IF holds(t, {"may", "entitled to", "has the right", "permitted to", "can"})
                THEN "rights"
                ELSE "none"
        IN  /\ \A name \in DOMAIN found :
                  \A k \in 1..Len(found[name]) : found[name][k] \in sent_texts
            /\ \A t \in sent_texts :
                  /\ \A name \in DOMAIN found :
                        Occurrences(found[name], t) = IF expected(t) = name THEN times(t) ELSE 0
                  /\ Contains(lower(t), "shall not") => Occurrences(found.obligations, t) = 0
                  /\ (Contains(lower(t), "shall") /\ Contains(lower(t), "may"))
                        => Occurrences(found.rights, t) = 0

\* a clause with a prohibition that holds "shall", an obligation that holds
\* "may", a right and a sentence without keyword, each in its list
C20_Witness ==
    /\ Len(doc_sents) = 3
    /\ obligations_found # <<>>
    /\ obligations_found[1].prohibitions = <<"The Vendor SHALL NOT assign this agreement.">>
    /\ obligations_found[1].obligations =
          <<"The Vendor shall deliver the goods and may invoice them.">>
    /\ obligations_found[1].rights = <<>>
    /\ doc_sents[3] = "Title passes on delivery."

C22_ParagraphIdsSequential ==
    \A c \in 1..Len(extracted) :
        \A k \in 1..Len(extracted[c]) :
            extracted[c][k].type = "paragraph" =>
                extracted[c][k].clause_id = "P" \o ToString(k)

\* two paragraphs were kept around a discarded one: their ids are P1 and P3
C22_Witness ==
    /\ extracted # <<>>
    /\ Len(split(extracted_from[1], "\n\n")) = 3
    /\ Len(extracted[1]) = 2
    /\ extracted[1][1].clause_id = "P1"
    /\ extracted[1][2].clause_id = "P3"

\* the findings of the rules that depend on the clause type
TypeRuleFindings == {"Termination Without Cause", "Advance Payment"}

\* C23: the result of _detect_clause_risks holds a HIGH "Termination Without
\* Cause" finding of category unilateral_termination iff the type is
\* Termination and the lower-cased text contains "without cause" or "at
\* will", and a MEDIUM "Advance Payment" finding of category payment_terms iff
\* the type is Payment Terms and the text contains "advance" or "upfront";
\* they come behind the findings of the patterns, none of which is left out.
C23_TypeConditionalRules ==
    \A c \in 1..Len(detected) :
        LET found == detected[c].risks
            t     == lower(classified_text)
            holds(risk_type, severity, category) ==
                \E k \in 1..Len(found) :
                    /\ found[k].risk_type = risk_type
                    /\ found[k].severity = severity
                    /\ found[k].category = category
        IN  /\ holds("Termination Without Cause", "HIGH", "unilateral_termination")
                  <=> /\ detected[c].clause_type = "Termination"
                      /\ Contains(t, "without cause") \/ Contains(t, "at will")
            /\ holds("Advance Payment", "MEDIUM", "payment_terms")
                  <=> /\ detected[c].clause_type = "Payment Terms"
                      /\ Contains(t, "advance") \/ Contains(t, "upfront")
            /\ \A k \in 1..Len(found) :
                  found[k].risk_type \in TypeRuleFindings =>
                      /\ Cardinality({k2 \in 1..Len(found) :
                                         found[k2].risk_type = found[k].risk_type}) = 1
                      /\ \A k2 \in (k + 1)..Len(found) :
                            found[k2].risk_type \in TypeRuleFindings
            /\ \A p \in 1..Len(risk_patterns) :
                  PatternMatches(risk_patterns[p].name, t) =>
                      \E k \in 1..Len(found) : found[k].risk_type = risk_patterns[p].name

\* a Termination clause that matches the Unilateral Termination pattern and
\* holds "at will": both findings, the pattern's first
C23_Witness ==
    /\ detected # <<>>
    /\ detected[1].clause_type = "Termination"
    /\ Len(detected[1].risks) = 2
    /\ detected[1].risks[1].risk_type = "Unilateral Termination"
    /\ detected[1].risks[2].risk_type = "Termination Without Cause"
    /\ Contains(classified_text, "AT WILL")

\* the findings handed to assess_contract_risk, those of the clauses in
\* clause order and finding order, then those of the LLM in their order, each
\* with its category
RECURSIVE ClauseFindings(_)
ClauseFindings(clauses) ==
    IF clauses = <<>> THEN <<>>
    ELSE LET last == clauses[Len(clauses)]
         IN  ClauseFindings(SubSeq(clauses, 1, Len(clauses) - 1)) \o
             [k \in 1..Len(last.risks) |->
                [category  |-> last.risks[k].category,
                 clause_id |-> last.clause_id,
                 risk_type |-> last.risks[k].risk_type,
                 severity  |-> last.risks[k].severity]]

LLMFindings ==
    IF llm_given
    THEN [k \in 1..Len(llm_risks) |->
            [category  |-> _categorize_llm_risk(Get(llm_risks[k], "type", "General Risk")),
             clause_id |-> "LLM Analysis",
             risk_type |-> Get(llm_risks[k], "type", "General Risk"),
             severity  |-> Get(llm_risks[k], "severity", "MEDIUM")]]
    ELSE <<>>

\* the entries of a list of risk_breakdown, as findings of category c
AsFindings(entries, c) ==
    [k \in 1..Len(entries) |->
        [category  |-> c,
         clause_id |-> entries[k].clause_id,
         risk_type |-> entries[k].risk_type,
         severity  |-> entries[k].severity]]

C25_HighPriorityAreTheHighFindings ==
    Done =>
        LET breakdown == risk_assessment.risk_breakdown
            listed    == risk_assessment.high_priority_risks
            given     == ClauseFindings(analyzed_clauses) \o LLMFindings
            entry_of(finding, c) ==
                [category    |-> category_label(c),
                 risk_type   |-> finding.risk_type,
                 clause_id   |-> finding.clause_id,
                 description |-> finding.description]
        IN  /\ Len(listed) = Len(SelectSeq(given, LAMBDA finding : finding.severity = "HIGH"))
            /\ \A c \in DOMAIN breakdown :
                  \A k \in 1..Len(breakdown[c]) :
                      LET entry == entry_of(breakdown[c][k], c)
                      IN  Cardinality({j \in 1..Len(listed) : listed[j] = entry})
                              = IF breakdown[c][k].severity = "HIGH"
                                THEN Cardinality({k2 \in 1..Len(breakdown[c]) :
                                        /\ breakdown[c][k2].severity = "HIGH"
                                        /\ entry_of(breakdown[c][k2], c) = entry})
                                ELSE 0

\* HIGH findings of a clause and of the LLM are listed, next to findings
\* that are MEDIUM and LOW and a finding of another severity word
C25_Witness ==
    /\ Done
    /\ \E j \in 1..Len(risk_assessment.high_priority_risks) :
          risk_assessment.high_priority_risks[j].clause_id = "LLM Analysis"
    /\ \E j \in 1..Len(risk_assessment.high_priority_risks) :
          risk_assessment.high_priority_risks[j].clause_id # "LLM Analysis"
    /\ \E c \in DOMAIN risk_assessment.risk_breakdown :
          \E k \in 1..Len(risk_assessment.risk_breakdown[c]) :
              risk_assessment.risk_breakdown[c][k].severity = "MEDIUM"

\* the collaborator calls made so far
Executed == {executed[k] : k \in 1..Len(executed)}

\* C26: a failure of a collaborator in step 2, 3, 5 or 6 is caught at that
\* step and replaced by a default, so that an analysis that got past the
\* tests of the document returns results.
C26_CollaboratorFailuresAreCaught ==
    (pc = "returned" /\ "detect_language" \in Executed) => results.kind = "results"

\* langdetect failed and the calls of steps 5 and 6 raised on an answer
\* without content, and the analysis returned results holding the fallback
\* language, the default classification and the default negotiation points
C26_Witness ==
    /\ pc = "returned"
    /\ results.kind = "results"
    /\ results.language_info.error # None
    /\ results.language_info.primary_language = "en"
    /\ results.contract_classification.reasoning = "LLM unavailable"
    /\ results.negotiation_points = <<"Negotiation points unavailable - LLM not configured">>

RECURSIVE LoggedEntries(_)
LoggedEntries(files) ==
    IF files = {} THEN 0
    ELSE LET f == CHOOSE f2 \in files : TRUE
         IN  Len(audit_files[f]) + LoggedEntries(files \ {f})

\* C28: no audit entry is lost when calls of create_audit_log interleave:
\* once the calls have returned the log holds one entry for each of them.
C28_NoAuditEntryLost ==
    (\A session \in Sessions : audit_sessions[session].at = "outside")
        => LoggedEntries(DOMAIN audit_files) = audit_calls

\* two calls have loaded the same file, which holds an earlier entry, and
\* neither has written yet
C28_Witness ==
    /\ \A session \in Sessions : audit_sessions[session].at = "loaded"
    /\ \A session \in Sessions : Len(audit_sessions[session].logs) = 2
    /\ \A s1, s2 \in Sessions : audit_sessions[s1].audit_file = audit_sessions[s2].audit_file
    /\ audit_calls = 1

\* C29: a press of the button that gets results sets analysis_results and
\* uploaded_file_name together, to the results and the name of the file in
\* the uploader, and adds exactly one audit entry; every other step, a failed
\* analysis among them, leaves both fields and the log as they are.  So the
\* name stored is that of the file the results stored were computed from.
C29_SessionStateSetTogether ==
    [][LET before == streamlit.session_state
           after  == streamlit'.session_state
       IN  \/ /\ audit_calls' = audit_calls + 1
              /\ LoggedEntries(DOMAIN audit_files)' = LoggedEntries(DOMAIN audit_files) + 1
              /\ streamlit.uploaded_file # None
              /\ after.analysis_results = analyze_contract(streamlit.uploaded_file)
              /\ after.analysis_results # None
              /\ after.uploaded_file_name = Str(streamlit.uploaded_file.name)
              /\ after.uploaded_file_name = Str(after.analysis_results.document_info.file_name)
           \/ /\ after = before
              /\ audit_files' = audit_files
              /\ audit_calls' = audit_calls]_vars

\* results of one file are stored while another file, whose analysis has
\* failed, is in the uploader, and the log holds the one entry
C29_Witness ==
    /\ streamlit.session_state.analysis_results # None
    /\ streamlit.uploaded_file # None
    /\ streamlit.uploaded_file.analysis = None
    /\ streamlit.session_state.uploaded_file_name # Str(streamlit.uploaded_file.name)
    /\ streamlit.session_state.uploaded_file_name
           = Str(streamlit.session_state.analysis_results.document_info.file_name)
    /\ audit_calls = 1
    /\ LoggedEntries(DOMAIN audit_files) = 1

\* the keywords that decide the category of an LLM finding, in the order
\* in which they are tried: those of the code, and the words of the claim
KeywordStems ==
    << <<"payment_terms", {"payment", "fee"}>>,
       <<"unilateral_termination", {"terminat"}>>,
       <<"indemnity", {"indemnity", "indemnif"}>>,
       <<"liability", {"liability", "liable"}>>,
       <<"penalty_clauses", {"penalty", "penalt"}>>,
       <<"non_compete", {"compete", "non-compete"}>>,
       <<"auto_renewal", {"renewal", "renew"}>>,
       <<"arbitration", {"arbitration", "jurisdiction"}>>,
       <<"confidentiality", {"confidential"}>> >>
KeywordWords ==
    << <<"payment_terms", {"payment", "fee"}>>,
       <<"unilateral_termination", {"terminat"}>>,
       <<"indemnity", {"indemnity"}>>,
       <<"liability", {"liability"}>>,
       <<"penalty_clauses", {"penalty"}>>,
       <<"non_compete", {"compete"}>>,
       <<"auto_renewal", {"renewal"}>>,
       <<"arbitration", {"arbitration", "jurisdiction"}>>,
       <<"confidentiality", {"confidential"}>> >>

\* the category of the first entry of keywords with a keyword in the type,
\* "other" if there is none
FirstKeywordCategory(risk_type, keywords) ==
    LET matching == {k \in 1..Len(keywords) :
                        \E keyword \in keywords[k][2] : Contains(lower(risk_type), keyword)}
    IN  IF matching = {} THEN "other"
        ELSE keywords[CHOOSE k \in matching : \A k2 \in matching : k <= k2][1]

\* every LLM finding is in the list of the category the keywords give it and
\* in no other, in the order handed in, with its severity as reported
\* (MEDIUM if none was), scored as MEDIUM unless the severity is LOW, MEDIUM
\* or HIGH, and listed as high priority only if the severity is HIGH
LLMFindingsFiled(keywords) ==
    (Done /\ llm_given) =>
        LET breakdown == risk_assessment.risk_breakdown
            expected == [k \in 1..Len(llm_risks) |->
                LET risk_type == Get(llm_risks[k], "type", "General Risk")
                    severity  == Get(llm_risks[k], "severity", "MEDIUM")
                    category  == FirstKeywordCategory(risk_type, keywords)
                IN  [category |-> category,
                     entry |-> [clause_id   |-> "LLM Analysis",
                                risk_type   |-> risk_type,
                                severity    |-> severity,
                                score       |-> FMulInt(IF severity = "LOW" THEN 1
                                                        ELSE IF severity = "HIGH" THEN 3
                                                        ELSE 2,
                                                        risk_weight(category)),
                                description |-> Get(llm_risks[k], "description", "")]]]
        IN  /\ \A c \in DOMAIN breakdown :
                  SelectSeq(breakdown[c], LAMBDA e : e.clause_id = "LLM Analysis")
                      = [j \in 1..Len(SelectSeq(expected, LAMBDA x : x.category = c)) |->
                            SelectSeq(expected, LAMBDA x : x.category = c)[j].entry]
            /\ \A k \in 1..Len(expected) :
                  /\ expected[k].category \in DOMAIN breakdown
                  /\ expected[k].entry.severity # "HIGH" =>
                        \A j \in 1..Len(risk_assessment.high_priority_risks) :
                            LET listed == risk_assessment.high_priority_risks[j]
                            IN  ~ /\ listed.clause_id = "LLM Analysis"
                                  /\ listed.risk_type = expected[k].entry.risk_type
                                  /\ listed.description = expected[k].entry.description

\* C30 as stated: an LLM finding whose severity is not LOW, MEDIUM or HIGH is
\* scored as MEDIUM, keeps its severity in risk_breakdown and is not listed in
\* high_priority_risks, and every LLM finding is filed under the category of
\* the first of the words payment/fee, terminat, indemnity, liability,
\* penalty, compete, renewal, arbitration/jurisdiction, confidential that its
\* type contains, or under "other".
C30_LLMFindingsFiledByWords == LLMFindingsFiled(KeywordWords)

\* C30 (amended): the same with the keywords the code tries, which are word
\* stems: indemnity or indemnif, liability or liable, penalt, renew.
C30_LLMFindingsFiledByStems == LLMFindingsFiled(KeywordStems)

\* an LLM finding with the severity "high" and the type Late Delivery
\* Penalties is filed under penalty_clauses with this severity and the score
\* of a MEDIUM finding, and is not listed as high priority
C30_Witness ==
    /\ Done
    /\ llm_given
    /\ \E k \in 1..Len(llm_risks) : llm_risks[k].type = "Late Delivery Penalties"
    /\ \E j \in 1..Len(risk_assessment.risk_breakdown["penalty_clauses"]) :
          LET e == risk_assessment.risk_breakdown["penalty_clauses"][j]
          IN  /\ e.clause_id = "LLM Analysis"
              /\ e.severity = "high"
              /\ e.score = FMulInt(2, risk_weight("penalty_clauses"))
    /\ \A j \in 1..Len(risk_assessment.high_priority_risks) :
          risk_assessment.high_priority_risks[j].clause_id # "LLM Analysis"

====
